---- MODULE Spec2Model ----
(***************************************************************************)
(* Lab_Track (mainV10.py): the in-process entity store of DatabaseManager  *)
(* and the issue / return workflow of LabApp that drives it.               *)
(*                                                                         *)
(* Text (serial numbers, component names, typed input) is a sequence of    *)
(* one-character strings, so that upper(), strip() and comparison are      *)
(* computed.  Student names and codes are atomic strings.  Time is an      *)
(* integer clock read by datetime.now(); None is the empty tuple and a     *)
(* present optional value x is <<x>>.                                      *)
(***************************************************************************)
EXTENDS Integers, Sequences, FiniteSets, TLC

\* ------------------------------------------------------------------ bounds
MaxTransactions == 3
MaxClock == 1
MaxCart == 2
MaxItems == 9
MaxInventory == 5
MaxStudentId == 4
\* the clock counts seconds; a day is shortened to this many of them
SecondsPerDay == 2

\* --------------------------------------------------------- program constants
SeedOverdueDays == 10

VARIABLES mock_inventory, mock_items, mock_students, mock_staff,
          mock_transactions, mock_transaction_items,
          clock, ret, lastCall,
          cart_items, cart_confirmed, current_view, current_issuer_id,
          popups, selected_return_student, loans,
          deleted_student_ids

\* deleted_student_ids is a history variable: the ids of the student records
\* delete_student has removed from the store made by the last __init__.

store == <<mock_inventory, mock_items, mock_students, mock_staff,
           mock_transactions, mock_transaction_items>>
ui == <<cart_items, cart_confirmed, current_view, current_issuer_id,
        popups, selected_return_student, loans>>
vars == <<mock_inventory, mock_items, mock_students, mock_staff,
          mock_transactions, mock_transaction_items,
          clock, ret, lastCall,
          cart_items, cart_confirmed, current_view, current_issuer_id,
          popups, selected_return_student, loans,
          deleted_student_ids>>

\* ------------------------------------------------------------------- text
None == <<>>
Some(x) == <<x>>

LowerLetters == <<"a","b","c","d","e","f","g","h","i","j","k","l","m",
                  "n","o","p","q","r","s","t","u","v","w","x","y","z">>
UpperLetters == <<"A","B","C","D","E","F","G","H","I","J","K","L","M",
                  "N","O","P","Q","R","S","T","U","V","W","X","Y","Z">>

UpperOf ==
    [c \in {LowerLetters[i] : i \in DOMAIN LowerLetters} |->
        UpperLetters[CHOOSE i \in DOMAIN LowerLetters : LowerLetters[i] = c]]

UpperChar(c) == IF c \in DOMAIN UpperOf THEN UpperOf[c] ELSE c

\* str.upper()
upper(s) == [i \in 1..Len(s) |-> UpperChar(s[i])]

LowerOf ==
    [c \in {UpperLetters[i] : i \in DOMAIN UpperLetters} |->
        LowerLetters[CHOOSE i \in DOMAIN UpperLetters : UpperLetters[i] = c]]

LowerChar(c) == IF c \in DOMAIN LowerOf THEN LowerOf[c] ELSE c

\* str.lower()
lower(s) == [i \in 1..Len(s) |-> LowerChar(s[i])]

\* "needle in hay" on strings
contains(needle, hay) ==
    \E i \in 0..(Len(hay) - Len(needle)) : SubSeq(hay, i + 1, i + Len(needle)) = needle

RECURSIVE lstrip(_)
lstrip(s) == IF s # <<>> /\ Head(s) = " " THEN lstrip(Tail(s)) ELSE s

RECURSIVE rstrip(_)
rstrip(s) == IF s # <<>> /\ s[Len(s)] = " " THEN rstrip(SubSeq(s, 1, Len(s) - 1)) ELSE s

\* str.strip()
strip(s) == rstrip(lstrip(s))

\* item.get("status", "").lower() on the status values the store holds
status_lower(st) ==
    CASE st = "Available" -> "available"
      [] st = "Issued"    -> "issued"
      [] st = "Damaged"   -> "damaged"
      [] OTHER            -> st

\* str.replace(' ', '')
remove_spaces(s) == SelectSeq(s, LAMBDA c : c # " ")

\* str.ljust(width, fillchar)
RECURSIVE ljust(_, _, _)
ljust(s, width, fillchar) ==
    IF Len(s) >= width THEN s ELSE ljust(Append(s, fillchar), width, fillchar)

\* str.startswith(prefix)
startswith(s, prefix) ==
    /\ Len(prefix) <= Len(s)
    /\ SubSeq(s, 1, Len(prefix)) = prefix

Digits == <<"0","1","2","3","4","5","6","7","8","9">>
IsDigit(c) == \E d \in DOMAIN Digits : Digits[d] = c
DigitValue(c) == (CHOOSE d \in DOMAIN Digits : Digits[d] = c) - 1

\* value of a string of decimal digits
RECURSIVE DigitsValue(_)
DigitsValue(s) ==
    IF s = <<>> THEN 0
    ELSE 10 * DigitsValue(SubSeq(s, 1, Len(s) - 1)) + DigitValue(s[Len(s)])

\* int(str): surrounding blanks are dropped, one sign is allowed, the rest
\* must be decimal digits (underscores between digits are not modelled)
int_sign(s) == IF strip(s) # <<>> /\ Head(strip(s)) \in {"+", "-"} THEN 1 ELSE 0
int_digits(s) == SubSeq(strip(s), 1 + int_sign(s), Len(strip(s)))
int_parses(s) ==
    /\ int_digits(s) # <<>>
    /\ \A i \in DOMAIN int_digits(s) : IsDigit(int_digits(s)[i])
int_value(s) ==
    IF int_sign(s) = 1 /\ Head(strip(s)) = "-"
    THEN 0 - DigitsValue(int_digits(s))
    ELSE DigitsValue(int_digits(s))

\* str(n) for n >= 0
RECURSIVE decimal(_)
decimal(n) ==
    IF n < 10 THEN <<Digits[n + 1]>>
    ELSE Append(decimal(n \div 10), Digits[(n % 10) + 1])

\* str.rjust(width, '0')
RECURSIVE zero_pad(_, _)
zero_pad(s, width) == IF Len(s) >= width THEN s ELSE zero_pad(<<"0">> \o s, width)

\* f"{n:03d}" for n >= 0
format_03d(n) == zero_pad(decimal(n), 3)

\* ----------------------------------------------------------- seeded store
Arduino     == <<"A","r","d","u","i","n","o">>
RaspberryPi == <<"R","a","s","p","b","e","r","r","y"," ","P","i">>
Sensor      == <<"S","e","n","s","o","r">>

ARD001 == <<"A","R","D","0","0","1">>
ARD002 == <<"A","R","D","0","0","2">>
ARD003 == <<"A","R","D","0","0","3">>
ARD004 == <<"A","R","D","0","0","4">>
RPI001 == <<"R","P","I","0","0","1">>
RPI002 == <<"R","P","I","0","0","2">>
SEN001 == <<"S","E","N","0","0","1">>

SeedInventory ==
    << [id |-> 1, name |-> Arduino,     total_qty |-> 10, course |-> "ECE101"],
       [id |-> 2, name |-> RaspberryPi, total_qty |-> 5,  course |-> "CS201"],
       [id |-> 3, name |-> Sensor,      total_qty |-> 20, course |-> "ECE101"] >>

SeedItems ==
    << [id |-> 1, serial_number |-> ARD001, status |-> "Available", inventory_id |-> 1],
       [id |-> 2, serial_number |-> ARD002, status |-> "Available", inventory_id |-> 1],
       [id |-> 3, serial_number |-> ARD003, status |-> "Issued",    inventory_id |-> 1],
       [id |-> 4, serial_number |-> ARD004, status |-> "Damaged",   inventory_id |-> 1],
       [id |-> 5, serial_number |-> RPI001, status |-> "Available", inventory_id |-> 2],
       [id |-> 6, serial_number |-> RPI002, status |-> "Available", inventory_id |-> 2],
       [id |-> 7, serial_number |-> SEN001, status |-> "Available", inventory_id |-> 3] >>

SeedStudents ==
    << [id |-> 1, name |-> "John Doe",    student_id |-> "STU001"],
       [id |-> 2, name |-> "Jane Smith",  student_id |-> "STU002"],
       [id |-> 3, name |-> "Bob Johnson", student_id |-> "STU003"] >>

SeedStaff ==
    << [id |-> 1, name |-> "Dr. Sarah Chen",      staff_id |-> "STAFF001"],
       [id |-> 2, name |-> "Prof. Michael Brown", staff_id |-> "STAFF002"],
       [id |-> 3, name |-> "Lab Assistant",       staff_id |-> "STAFF003"] >>

\* now is the clock value at which _init_mock_data runs
SeedTransactions(now) ==
    << [id |-> 1, student_id |-> 1, issuer_id |-> Some(1), status |-> "Active",
        created_at |-> now, issue_date |-> now, closed_at |-> None],
       [id |-> 2, student_id |-> 2, issuer_id |-> Some(2), status |-> "Active",
        created_at |-> now - SeedOverdueDays * SecondsPerDay,
        issue_date |-> now - SeedOverdueDays * SecondsPerDay,
        closed_at |-> None] >>

SeedTransactionItems ==
    << [id |-> 1, transaction_id |-> 1, item_id |-> 3],
       [id |-> 2, transaction_id |-> 2, item_id |-> 5] >>

\* DatabaseManager._init_mock_data
init_mock_data(now) ==
    /\ mock_inventory' = SeedInventory
    /\ mock_items' = SeedItems
    /\ mock_students' = SeedStudents
    /\ mock_staff' = SeedStaff
    /\ mock_transactions' = SeedTransactions(now)
    /\ mock_transaction_items' = SeedTransactionItems

\* ---------------------------------------------------------------- helpers
Range(s) == {s[i] : i \in DOMAIN s}

\* index of the first record of seq whose id is x, 0 if there is none
\* (the "for r in seq: if r["id"] == x: ...; break" idiom)
FirstIndexById(seq, x) ==
    IF \E i \in DOMAIN seq : seq[i].id = x
    THEN CHOOSE i \in DOMAIN seq : seq[i].id = x /\ \A j \in 1..(i - 1) : seq[j].id # x
    ELSE 0

\* max([r["id"] for r in seq], default=0)
MaxId(seq) ==
    IF seq = <<>> THEN 0
    ELSE CHOOSE m \in {seq[i].id : i \in DOMAIN seq} : \A i \in DOMAIN seq : seq[i].id <= m

\* ------------------------------------------------- DatabaseManager (mock)
\* The methods are written as the effect on the store and the value returned
\* (ret); the caller's action says what else changes.

\* a slip in the loop of create_transaction: every row gets the first item id
new_transaction_items_first_item(transaction_id, item_ids) ==
    [k \in 1..Len(item_ids) |->
        [id |-> Len(mock_transaction_items) + k,
         transaction_id |-> transaction_id,
         item_id |-> item_ids[1]]]

\* DatabaseManager.create_transaction: the rows appended to
\* mock_transaction_items, one per entry of item_ids, ids len+1, len+2, ...
new_transaction_items(transaction_id, item_ids) ==
    [k \in 1..Len(item_ids) |->
        [id |-> Len(mock_transaction_items) + k,
         transaction_id |-> transaction_id,
         item_id |-> item_ids[k]]]

\* DatabaseManager.create_transaction: status of every listed item := Issued
issue_items(items, item_ids) ==
    [k \in DOMAIN items |->
        IF \E n \in DOMAIN item_ids : FirstIndexById(items, item_ids[n]) = k
        THEN [items[k] EXCEPT !.status = "Issued"]
        ELSE items[k]]

\* a create_transaction that numbers the new transaction after the Active
\* ones only
create_transaction_counting_active(student_id, item_ids, issuer_id) ==
    LET transaction_id ==
            Cardinality({k \in DOMAIN mock_transactions :
                            mock_transactions[k].status = "Active"}) + 1
        transaction_data ==
            [id |-> transaction_id, student_id |-> student_id,
             issuer_id |-> issuer_id, status |-> "Active",
             created_at |-> clock, issue_date |-> clock, closed_at |-> None]
    IN  /\ mock_transactions' = Append(mock_transactions, transaction_data)
        /\ mock_transaction_items' =
               mock_transaction_items \o new_transaction_items(transaction_id, item_ids)
        /\ mock_items' = issue_items(mock_items, item_ids)
        /\ ret' = Some(transaction_id)
        /\ UNCHANGED <<mock_inventory, mock_students, mock_staff>>

\* DatabaseManager.create_transaction (use_mock branch)
create_transaction(student_id, item_ids, issuer_id) ==
    LET transaction_id == Len(mock_transactions) + 1
        transaction_data ==
            [id |-> transaction_id, student_id |-> student_id,
             issuer_id |-> issuer_id, status |-> "Active",
             created_at |-> clock, issue_date |-> clock, closed_at |-> None]
    IN  /\ mock_transactions' = Append(mock_transactions, transaction_data)
        /\ mock_transaction_items' =
               mock_transaction_items \o new_transaction_items(transaction_id, item_ids)
        /\ mock_items' = issue_items(mock_items, item_ids)
        /\ ret' = Some(transaction_id)
        /\ UNCHANGED <<mock_inventory, mock_students, mock_staff>>

\* a status write that reaches every item sharing a transaction with item_id
set_item_status_whole_loan(items, item_id, st) ==
    [k \in DOMAIN items |->
        IF \E a, b \in DOMAIN mock_transaction_items :
               /\ mock_transaction_items[a].transaction_id
                      = mock_transaction_items[b].transaction_id
               /\ mock_transaction_items[a].item_id = item_id
               /\ mock_transaction_items[b].item_id = items[k].id
        THEN [items[k] EXCEPT !.status = st]
        ELSE items[k]]

\* the "for item in mock_items: if item["id"] == item_id: item["status"] = st; break" loop
set_item_status(items, item_id, st) ==
    [k \in DOMAIN items |->
        IF k = FirstIndexById(items, item_id)
        THEN [items[k] EXCEPT !.status = st]
        ELSE items[k]]

\* the "Close transaction" loop of return_item without "closed_at = now"
close_transaction_no_closed_at(transactions, transaction_id, now) ==
    [k \in DOMAIN transactions |->
        IF k = FirstIndexById(transactions, transaction_id)
        THEN [transactions[k] EXCEPT !.status = "Closed"]
        ELSE transactions[k]]

\* the "Close transaction" loop of return_item
close_transaction(transactions, transaction_id, now) ==
    [k \in DOMAIN transactions |->
        IF k = FirstIndexById(transactions, transaction_id)
        THEN [transactions[k] EXCEPT !.status = "Closed", !.closed_at = Some(now)]
        ELSE transactions[k]]

\* DatabaseManager.return_item (use_mock branch)
return_item(item_id, transaction_id) ==
    /\ mock_items' = set_item_status(mock_items, item_id, "Available")
    /\ mock_transactions' = close_transaction(mock_transactions, transaction_id, clock)
    /\ ret' = Some(TRUE)
    /\ UNCHANGED <<mock_inventory, mock_students, mock_staff, mock_transaction_items>>

\* report_damaged without its "Close transaction" loop
close_damaged_transaction_skipped(transactions, transaction_id, now) ==
    transactions

\* the "Close transaction" loop of report_damaged
close_damaged_transaction(transactions, transaction_id, now) ==
    [k \in DOMAIN transactions |->
        IF transactions[k].id = transaction_id
           /\ \A j \in 1..(k - 1) : transactions[j].id # transaction_id
        THEN [transactions[k] EXCEPT !.status = "Closed", !.closed_at = Some(now)]
        ELSE transactions[k]]

\* DatabaseManager.report_damaged (use_mock branch)
report_damaged(item_id, transaction_id) ==
    /\ mock_items' = set_item_status(mock_items, item_id, "Damaged")
    /\ mock_transactions' = close_damaged_transaction(mock_transactions, transaction_id, clock)
    /\ ret' = Some(TRUE)
    /\ UNCHANGED <<mock_inventory, mock_students, mock_staff, mock_transaction_items>>

\* DatabaseManager.create_student (use_mock branch)
create_student(student_data) ==
    LET new_id == MaxId(mock_students) + 1
    IN  /\ mock_students' = Append(mock_students,
                [id |-> new_id, name |-> student_data.name,
                 student_id |-> student_data.student_id])
        /\ ret' = Some(new_id)
        /\ UNCHANGED <<mock_inventory, mock_items, mock_staff,
                       mock_transactions, mock_transaction_items>>

\* a delete_student that also closes the student's Active transactions
delete_student_closing_loans(student_id) ==
    /\ mock_students' = SelectSeq(mock_students, LAMBDA s : s.id # student_id)
    /\ mock_transactions' =
           [k \in DOMAIN mock_transactions |->
               IF mock_transactions[k].student_id = student_id
               THEN [mock_transactions[k] EXCEPT !.status = "Closed"]
               ELSE mock_transactions[k]]
    /\ ret' = Some(TRUE)
    /\ UNCHANGED <<mock_inventory, mock_items, mock_staff, mock_transaction_items>>

\* DatabaseManager.delete_student (use_mock branch)
delete_student(student_id) ==
    /\ mock_students' = SelectSeq(mock_students, LAMBDA s : s.id # student_id)
    /\ ret' = Some(TRUE)
    /\ UNCHANGED <<mock_inventory, mock_items, mock_staff,
                   mock_transactions, mock_transaction_items>>

\* DatabaseManager.create_inventory (use_mock branch):
\* {"id": new_id, **inventory_data}
create_inventory(inventory_data) ==
    LET new_id == MaxId(mock_inventory) + 1
    IN  /\ mock_inventory' = Append(mock_inventory, [id |-> new_id] @@ inventory_data)
        /\ ret' = Some(new_id)
        /\ UNCHANGED <<mock_items, mock_students, mock_staff,
                       mock_transactions, mock_transaction_items>>

\* a cell of the Quantity column: a number or a text
IntCell(n) == [kind |-> "int", value |-> n]
StrCell(s) == [kind |-> "str", value |-> s]

\* int(row.get('Quantity', 0)) raises ValueError
quantity_raises(cell) == cell.kind = "str" /\ ~int_parses(cell.value)
\* int(row.get('Quantity', 0))
quantity_of(cell) == IF cell.kind = "int" THEN cell.value ELSE int_value(cell.value)

\* bulk_import_inventory: "for inv in self.mock_inventory: if
\* inv["name"].upper() == component_name.upper(): ...; break"  (0 = None)
existing_inv(inventory, component_name) ==
    IF \E k \in DOMAIN inventory : upper(inventory[k].name) = upper(component_name)
    THEN CHOOSE k \in DOMAIN inventory :
             /\ upper(inventory[k].name) = upper(component_name)
             /\ \A j \in 1..(k - 1) : upper(inventory[j].name) # upper(component_name)
    ELSE 0

\* bulk_import_inventory: prefix = component_name[:3].upper().replace(' ', ''),
\* padded with 'X' to 3 characters
serial_prefix(component_name) ==
    ljust(remove_spaces(upper(SubSeq(component_name, 1,
              IF Len(component_name) < 3 THEN Len(component_name) ELSE 3))), 3, "X")

\* the "Find highest existing serial" loop without its inventory_id test
find_max_num_any_inventory(items, inventory_id, prefix, max_num) ==
    LET nums == {max_num} \cup
                {int_value(SubSeq(items[k].serial_number, Len(prefix) + 1,
                                  Len(items[k].serial_number))) :
                   k \in {j \in DOMAIN items :
                             /\ startswith(items[j].serial_number, prefix)
                             /\ int_parses(SubSeq(items[j].serial_number,
                                                  Len(prefix) + 1,
                                                  Len(items[j].serial_number)))}}
    IN  CHOOSE m \in nums : \A n \in nums : n <= m

\* bulk_import_inventory: the "Find highest existing serial" loop
RECURSIVE find_max_num(_, _, _, _)
find_max_num(items, inventory_id, prefix, max_num) ==
    IF items = <<>> THEN max_num
    ELSE LET item == Head(items)
             suffix == SubSeq(item.serial_number, Len(prefix) + 1, Len(item.serial_number))
             counted == /\ item.inventory_id = inventory_id
                        /\ startswith(item.serial_number, prefix)
                        /\ int_parses(suffix)
                        /\ int_value(suffix) > max_num
         IN  find_max_num(Tail(items), inventory_id, prefix,
                          IF counted THEN int_value(suffix) ELSE max_num)

\* bulk_import_inventory: the "Create items with sequential serial numbers" loop
new_serial_items(items, inventory_id, prefix, max_num, quantity) ==
    [i \in 1..quantity |->
        [id |-> Len(items) + i,
         serial_number |-> prefix \o format_03d(max_num + i),
         status |-> "Available",
         inventory_id |-> inventory_id]]

\* the body of "for row in csv_data" without "existing_inv["total_qty"] += quantity"
import_valid_row_total_kept(component_name, quantity, description, st) ==
    LET k == existing_inv(st.inventory, component_name)
        inventory_id == IF k # 0 THEN st.inventory[k].id ELSE Len(st.inventory) + 1
        inventory ==
            IF k # 0
            THEN st.inventory
            ELSE Append(st.inventory,
                        [id |-> inventory_id, name |-> component_name,
                         total_qty |-> quantity, description |-> description])
        prefix == serial_prefix(component_name)
        max_num == find_max_num(st.items, inventory_id, prefix, 0)
    IN  [inventory |-> inventory,
         items |-> st.items \o new_serial_items(st.items, inventory_id, prefix,
                                                max_num, quantity),
         inventory_created |-> st.inventory_created + (IF k # 0 THEN 0 ELSE 1),
         items_created |-> st.items_created + quantity,
         raised |-> FALSE]

\* bulk_import_inventory (use_mock branch): the body of "for row in csv_data"
\* for one row that passed the empty-name / quantity test.  st holds the
\* inventory and item lists and the two counters.
import_valid_row(component_name, quantity, description, st) ==
    LET k == existing_inv(st.inventory, component_name)
        inventory_id == IF k # 0 THEN st.inventory[k].id ELSE Len(st.inventory) + 1
        inventory ==
            IF k # 0
            THEN [st.inventory EXCEPT ![k].total_qty = @ + quantity]
            ELSE Append(st.inventory,
                        [id |-> inventory_id, name |-> component_name,
                         total_qty |-> quantity, description |-> description])
        prefix == serial_prefix(component_name)
        max_num == find_max_num(st.items, inventory_id, prefix, 0)
    IN  [inventory |-> inventory,
         items |-> st.items \o new_serial_items(st.items, inventory_id, prefix,
                                                max_num, quantity),
         inventory_created |-> st.inventory_created + (IF k # 0 THEN 0 ELSE 1),
         items_created |-> st.items_created + quantity,
         raised |-> FALSE]

\* the skip test without its quantity half
row_skipped_if_unnamed(component_name, quantity) == component_name = <<>>

\* bulk_import_inventory: "if not component_name or quantity <= 0: continue"
row_skipped(component_name, quantity) == component_name = <<>> \/ quantity <= 0

\* bulk_import_inventory (use_mock branch): the loop over the rows.  The mock
\* branch has no try/except: a ValueError of int() leaves the loop and the
\* method, and what the earlier rows wrote stays in the lists.
RECURSIVE import_rows(_, _)
import_rows(csv_data, st) ==
    IF csv_data = <<>> THEN st
    ELSE LET row == Head(csv_data)
             component_name == strip(row.Component_Name)
             quantity == quantity_of(row.Quantity)
             description == strip(row.Description)
         IN  IF quantity_raises(row.Quantity)
             THEN [st EXCEPT !.raised = TRUE]
             ELSE IF row_skipped(component_name, quantity)
             THEN import_rows(Tail(csv_data), st)
             ELSE import_rows(Tail(csv_data),
                      import_valid_row(component_name, quantity, description, st))

\* what the caller of a method that raised gets instead of a return value
Raised(exception) == <<"raised", exception>>

\* DatabaseManager.bulk_import_inventory (use_mock branch)
bulk_import_inventory(csv_data) ==
    LET st == import_rows(csv_data,
                  [inventory |-> mock_inventory, items |-> mock_items,
                   inventory_created |-> 0, items_created |-> 0, raised |-> FALSE])
    IN  /\ mock_inventory' = st.inventory
        /\ mock_items' = st.items
        /\ ret' = IF st.raised THEN Raised("ValueError")
                  ELSE Some(<<st.inventory_created, st.items_created>>)
        /\ UNCHANGED <<mock_students, mock_staff, mock_transactions,
                       mock_transaction_items>>

\* DatabaseManager.get_current_holder (use_mock branch): the first line of the
\* item whose transaction is Active and whose student is in the store gives
\* the name; None when the loops end
RECURSIVE get_current_holder_from(_, _)
get_current_holder_from(lines, item_id) ==
    IF lines = <<>> THEN None
    ELSE LET trans_item == Head(lines)
             holders ==
                 {<<t, s>> \in (DOMAIN mock_transactions) \X (DOMAIN mock_students) :
                     /\ trans_item.item_id = item_id
                     /\ mock_transactions[t].id = trans_item.transaction_id
                     /\ mock_transactions[t].status = "Active"
                     /\ mock_students[s].id = mock_transactions[t].student_id}
             first == CHOOSE h \in holders :
                          \A g \in holders :
                              h[1] < g[1] \/ (h[1] = g[1] /\ h[2] <= g[2])
         IN  IF holders # {} THEN Some(mock_students[first[2]].name)
             ELSE get_current_holder_from(Tail(lines), item_id)

get_current_holder(item_id) == get_current_holder_from(mock_transaction_items, item_id)

\* DatabaseManager.get_active_loans (use_mock branch), on the given lists:
\* one row per line of every Active transaction of the student, in transaction
\* then line order; a line whose item is not in items yields no row
RECURSIVE loans_of_lines(_, _, _)
loans_of_lines(trans, lines, items) ==
    IF lines = <<>> THEN <<>>
    ELSE LET trans_item == Head(lines)
             found == SelectSeq(items, LAMBDA it : it.id = trans_item.item_id)
         IN  (IF trans_item.transaction_id = trans.id
              THEN [n \in DOMAIN found |->
                       [id |-> found[n].id,
                        serial_number |-> found[n].serial_number,
                        status |-> found[n].status,
                        inventory_id |-> found[n].inventory_id,
                        transaction_id |-> trans.id,
                        transaction_item_id |-> trans_item.id]]
              ELSE <<>>)
             \o loans_of_lines(trans, Tail(lines), items)

RECURSIVE loans_of_transactions(_, _, _, _)
loans_of_transactions(student_id, transactions, lines, items) ==
    IF transactions = <<>> THEN <<>>
    ELSE (IF Head(transactions).student_id = student_id
             /\ Head(transactions).status = "Active"
          THEN loans_of_lines(Head(transactions), lines, items)
          ELSE <<>>)
         \o loans_of_transactions(student_id, Tail(transactions), lines, items)

get_active_loans(student_id) ==
    loans_of_transactions(student_id, mock_transactions, mock_transaction_items,
                          mock_items)

\* timedelta(days=n) in seconds
timedelta_days(n) == n * SecondsPerDay

\* timedelta.days of a difference of two instants: whole days, rounded down
days_of(seconds) == seconds \div SecondsPerDay

\* the overdue test of get_overdue_items taken as "not later than"
is_overdue_inclusive(issue_date, threshold_date) == issue_date <= threshold_date

\* get_overdue_items: "if issue_date < threshold_date"
is_overdue(issue_date, threshold_date) == issue_date < threshold_date

\* get_overdue_items: the rows of one overdue transaction, one per line of
\* the transaction whose item is in the store (the first item of that id)
RECURSIVE overdue_of_lines(_, _, _, _)
overdue_of_lines(trans, lines, items, days_overdue) ==
    IF lines = <<>> THEN <<>>
    ELSE LET trans_item == Head(lines)
             k == FirstIndexById(items, trans_item.item_id)
         IN  (IF trans_item.transaction_id = trans.id /\ k # 0
              THEN << [id |-> items[k].id,
                       serial_number |-> items[k].serial_number,
                       status |-> items[k].status,
                       inventory_id |-> items[k].inventory_id,
                       transaction_id |-> trans.id,
                       days_overdue |-> days_overdue] >>
              ELSE <<>>)
             \o overdue_of_lines(trans, Tail(lines), items, days_overdue)

RECURSIVE overdue_of_transactions(_, _, _, _, _)
overdue_of_transactions(transactions, lines, items, threshold_date, now) ==
    IF transactions = <<>> THEN <<>>
    ELSE LET trans == Head(transactions)
         IN  (IF trans.status = "Active" /\ is_overdue(trans.issue_date, threshold_date)
              THEN overdue_of_lines(trans, lines, items, days_of(now - trans.issue_date))
              ELSE <<>>)
             \o overdue_of_transactions(Tail(transactions), lines, items,
                                        threshold_date, now)

\* DatabaseManager.get_overdue_items (use_mock branch); datetime.now() is the
\* clock, which does not advance by a second within the call
get_overdue_items(days_threshold) ==
    overdue_of_transactions(mock_transactions, mock_transaction_items, mock_items,
                            clock - timedelta_days(days_threshold), clock)

\* list[:n]
Take(seq, n) == SubSeq(seq, 1, IF n < Len(seq) THEN n ELSE Len(seq))

\* sorted(transactions, key=created_at, reverse=True): newest first, and
\* records of equal created_at keep the order they have in the list
sorted_by_created_at_desc(transactions) ==
    LET before(j, k) ==
            \/ transactions[j].created_at > transactions[k].created_at
            \/ transactions[j].created_at = transactions[k].created_at /\ j < k
        place(k) == 1 + Cardinality({j \in DOMAIN transactions : before(j, k)})
    IN  [p \in DOMAIN transactions |->
            transactions[CHOOSE k \in DOMAIN transactions : place(k) = p]]

UnknownText == <<"U","n","k","n","o","w","n">>

\* get_recent_transactions: the "Get student name" loop
student_name_of(student_id) ==
    IF FirstIndexById(mock_students, student_id) = 0 THEN "Unknown"
    ELSE mock_students[FirstIndexById(mock_students, student_id)].name

\* get_recent_transactions: the inventory name of an item
inv_name_of(item) ==
    IF FirstIndexById(mock_inventory, item.inventory_id) = 0 THEN UnknownText
    ELSE mock_inventory[FirstIndexById(mock_inventory, item.inventory_id)].name

\* get_recent_transactions: the activity records of one transaction, one per
\* line of the transaction whose item is in the store
RECURSIVE activity_of_lines(_, _)
activity_of_lines(trans, lines) ==
    IF lines = <<>> THEN <<>>
    ELSE LET trans_item == Head(lines)
             k == FirstIndexById(mock_items, trans_item.item_id)
         IN  (IF trans_item.transaction_id = trans.id /\ k # 0
              THEN << [student_name |-> student_name_of(trans.student_id),
                       item_name |-> inv_name_of(mock_items[k]),
                       serial_number |-> mock_items[k].serial_number,
                       action |-> IF trans.status = "Active" THEN "Issue" ELSE "Return",
                       timestamp |-> trans.created_at,
                       transaction_id |-> trans.id] >>
              ELSE <<>>)
             \o activity_of_lines(trans, Tail(lines))

RECURSIVE activity_of_transactions(_)
activity_of_transactions(transactions) ==
    IF transactions = <<>> THEN <<>>
    ELSE activity_of_lines(Head(transactions), mock_transaction_items)
         \o activity_of_transactions(Tail(transactions))

\* DatabaseManager.get_recent_transactions (use_mock branch): the sorted list
\* is cut to limit transactions before it is expanded, the records to limit
\* after
get_recent_transactions(limit) ==
    Take(activity_of_transactions(
             Take(sorted_by_created_at_desc(mock_transactions), limit)), limit)

\* ------------------------------------------------------------ entity store
\* inputs of the store operations
ItemIdInputs == {1, 3, 4}
TransactionIdInputs == {1, 3, 9}
IssueInputs ==
    { [student_id |-> 1, item_ids |-> <<1>>,    issuer_id |-> Some(1)],
      [student_id |-> 2, item_ids |-> <<3>>,    issuer_id |-> Some(1)],
      [student_id |-> 2, item_ids |-> <<4>>,    issuer_id |-> None],
      [student_id |-> 1, item_ids |-> <<1, 4>>, issuer_id |-> Some(1)],
      [student_id |-> 1, item_ids |-> <<>>,     issuer_id |-> Some(1)] }
NoCall == [op |-> "init"]

UiInit ==
    /\ cart_items = <<>>
    /\ cart_confirmed = {}
    /\ current_view = "dashboard"
    /\ current_issuer_id = Some(1)
    /\ popups = <<>>
    /\ selected_return_student = None
    /\ loans = <<>>

\* DatabaseManager.__init__ without credentials, then LabApp.__init__
Init ==
    /\ clock = 0
    /\ mock_inventory = SeedInventory
    /\ mock_items = SeedItems
    /\ mock_students = SeedStudents
    /\ mock_staff = SeedStaff
    /\ mock_transactions = SeedTransactions(0)
    /\ mock_transaction_items = SeedTransactionItems
    /\ ret = None
    /\ lastCall = NoCall
    /\ deleted_student_ids = {}
    /\ UiInit

\* time passes between two operations
Tick ==
    /\ clock < MaxClock
    /\ clock' = clock + 1
    /\ lastCall' = [op |-> "tick"]
    /\ UNCHANGED deleted_student_ids
    /\ UNCHANGED <<store, ret, ui>>

\* issue(studentId, itemIds, issuerId)
issue(student_id, item_ids, issuer_id) ==
    /\ Len(mock_transactions) < MaxTransactions
    /\ create_transaction(student_id, item_ids, issuer_id)
    /\ lastCall' = [op |-> "create_transaction", student_id |-> student_id,
                    item_ids |-> item_ids, issuer_id |-> issuer_id]
    /\ UNCHANGED deleted_student_ids
    /\ UNCHANGED <<clock, ui>>

\* returnItem(itemId, transactionId)
returnItem(item_id, transaction_id) ==
    /\ return_item(item_id, transaction_id)
    /\ lastCall' = [op |-> "return_item", item_id |-> item_id,
                    transaction_id |-> transaction_id]
    /\ UNCHANGED deleted_student_ids
    /\ UNCHANGED <<clock, ui>>

\* reportDamaged(itemId, transactionId)
reportDamaged(item_id, transaction_id) ==
    /\ report_damaged(item_id, transaction_id)
    /\ lastCall' = [op |-> "report_damaged", item_id |-> item_id,
                    transaction_id |-> transaction_id]
    /\ UNCHANGED deleted_student_ids
    /\ UNCHANGED <<clock, ui>>

Next ==
    \/ Tick
    \/ \E c \in IssueInputs : issue(c.student_id, c.item_ids, c.issuer_id)
    \/ \E i \in ItemIdInputs, t \in TransactionIdInputs : returnItem(i, t)
    \/ \E i \in ItemIdInputs, t \in TransactionIdInputs : reportDamaged(i, t)

Spec == Init /\ [][Next]_vars

\* ------------------------------------------------- administration calls
\* createStudent(data)
createStudent(student_data) ==
    /\ MaxId(mock_students) < MaxStudentId
    /\ create_student(student_data)
    /\ lastCall' = [op |-> "create_student", student_data |-> student_data]
    /\ UNCHANGED deleted_student_ids
    /\ UNCHANGED <<clock, ui>>

\* deleteStudent(id); the ids of the records it removes are remembered
deleteStudent(student_id) ==
    /\ delete_student(student_id)
    /\ lastCall' = [op |-> "delete_student", student_id |-> student_id]
    /\ deleted_student_ids' =
           deleted_student_ids \cup
               {mock_students[k].id : k \in {j \in DOMAIN mock_students :
                                                mock_students[j].id = student_id}}
    /\ UNCHANGED <<clock, ui>>

\* createInventory(data)
createInventory(inventory_data) ==
    /\ Len(mock_inventory) < MaxInventory
    /\ create_inventory(inventory_data)
    /\ lastCall' = [op |-> "create_inventory", inventory_data |-> inventory_data]
    /\ UNCHANGED deleted_student_ids
    /\ UNCHANGED <<clock, ui>>

\* bulkImport(rows)
bulkImport(csv_data) ==
    /\ bulk_import_inventory(csv_data)
    /\ Len(mock_items') <= MaxItems
    /\ Len(mock_inventory') <= MaxInventory
    /\ lastCall' = [op |-> "bulk_import_inventory", csv_data |-> csv_data]
    /\ UNCHANGED deleted_student_ids
    /\ UNCHANGED <<clock, ui>>

Ardent == <<"A","r","d","e","n","t">>
Pi     == <<"P","i">>
Motor  == <<"M","o","t","o","r">>

Row(component_name, quantity) ==
    [Component_Name |-> component_name, Quantity |-> quantity, Description |-> <<>>]

CsvInputs ==
    { <<Row(Arduino, IntCell(2))>>,
      <<Row(<<" ","a","r","d","u","i","n","o"," ">>, StrCell(<<"1">>))>>,
      <<Row(Ardent, IntCell(1))>>,
      <<Row(Pi, IntCell(1)), Row(<<"P","I">>, IntCell(1))>>,
      <<Row(RaspberryPi, IntCell(1))>>,
      <<Row(<<" ">>, IntCell(5)), Row(Sensor, IntCell(0)),
        Row(Sensor, IntCell(-1)), Row(Sensor, IntCell(1))>>,
      <<Row(<<>>, IntCell(5))>>,
      <<Row(Sensor, IntCell(1)), Row(Motor, StrCell(<<"a","b","c">>)),
        Row(Arduino, IntCell(1))>> }

InventoryDataInputs ==
    { [name |-> <<"a","r","d","u","i","n","o">>, total_qty |-> 1],
      [name |-> Motor, total_qty |-> 2, course |-> "ME101"] }

\* intake: manual add of a component and bulk import
NextIntake ==
    \/ \E d \in InventoryDataInputs : createInventory(d)
    \/ \E c \in CsvInputs : bulkImport(c)

SpecIntake == Init /\ [][NextIntake]_vars

\* all the inserting and deleting calls, interleaved
AdminStudentDataInputs == { [student_id |-> "STU001", name |-> "Ann Lee"] }
AdminStudentIdInputs == {1, 3}
AdminInventoryDataInputs == { [name |-> Motor, total_qty |-> 2, course |-> "ME101"] }
AdminCsvInputs == { <<Row(Ardent, IntCell(1))>> }
AdminIssueInputs ==
    { [student_id |-> 3, item_ids |-> <<1>>, issuer_id |-> None],
      [student_id |-> 1, item_ids |-> <<2, 9>>, issuer_id |-> Some(1)] }
AdminReturnInputs == { <<3, 1>>, <<1, 3>> }
AdminDamagedInputs == { <<3, 1>> }

NextAdmin ==
    \/ \E d \in AdminStudentDataInputs : createStudent(d)
    \/ \E i \in AdminStudentIdInputs : deleteStudent(i)
    \/ \E d \in AdminInventoryDataInputs : createInventory(d)
    \/ \E c \in AdminCsvInputs : bulkImport(c)
    \/ \E c \in AdminIssueInputs : issue(c.student_id, c.item_ids, c.issuer_id)
    \/ \E r \in AdminReturnInputs : returnItem(r[1], r[2])
    \/ \E r \in AdminDamagedInputs : reportDamaged(r[1], r[2])

SpecAdmin == Init /\ [][NextAdmin]_vars

\* ------------------------------------------------------ derived views
\* overdueItems(daysThreshold)
overdueItems(days_threshold) ==
    /\ ret' = Some(get_overdue_items(days_threshold))
    /\ lastCall' = [op |-> "get_overdue_items", days_threshold |-> days_threshold]
    /\ UNCHANGED deleted_student_ids
    /\ UNCHANGED <<store, clock, ui>>

\* recentActivity(limit)
recentActivity(limit) ==
    /\ ret' = Some(get_recent_transactions(limit))
    /\ lastCall' = [op |-> "get_recent_transactions", limit |-> limit]
    /\ UNCHANGED deleted_student_ids
    /\ UNCHANGED <<store, clock, ui>>

\* the dashboard asks for 5
LimitInputs == {1, 2, 5}
DaysThresholdInputs == {0, SeedOverdueDays - 1, SeedOverdueDays, SeedOverdueDays + 1}
QueryIssueInputs ==
    { [student_id |-> 3, item_ids |-> <<1, 2>>, issuer_id |-> Some(2)],
      [student_id |-> 1, item_ids |-> <<>>,     issuer_id |-> None] }
QueryReturnInputs == { <<3, 1>> }


\* ---------------------------------------------------- LabApp, catalog page
\* DatabaseManager.get_all_items: the inventory record joined to an item,
\* None when no inventory has the item's inventory_id
inventory_of(item) ==
    IF FirstIndexById(mock_inventory, item.inventory_id) = 0 THEN None
    ELSE Some(mock_inventory[FirstIndexById(mock_inventory, item.inventory_id)])

\* _filter_catalog_table, status filter.  The filter is the text of a status
\* pill and the status one of the three words the store writes; none has
\* blanks for strip() to remove.
status_passes(item, filter_status) ==
    filter_status = "All" \/ item.status = filter_status

\* _filter_catalog_table: the course of the item's inventory, None when there
\* is no inventory, no course, an empty one or "N/A"
item_course(item) ==
    LET inventory == inventory_of(item)
    IN  IF inventory = None THEN None
        ELSE IF "course" \notin DOMAIN inventory[1] THEN None
        ELSE IF inventory[1].course \in {"", "N/A"} THEN None
        ELSE Some(inventory[1].course)

\* _filter_catalog_table, course filter
course_passes(item, filter_course) ==
    filter_course = "All" \/ item_course(item) = Some(filter_course)

\* the search filter looking at the serial number only
search_matches_serial_only(item, search_query) ==
    search_query # <<>> => contains(search_query, lower(item.serial_number))

\* _filter_catalog_table, search filter: applied only to a non-empty query
search_matches(item, search_query) ==
    LET inventory == inventory_of(item)
        inventory_name == IF inventory = None THEN UnknownText ELSE inventory[1].name
    IN  search_query # <<>> =>
            \/ contains(search_query, lower(item.serial_number))
            \/ contains(search_query, lower(inventory_name))

\* LabApp._filter_catalog_table: the rows of the rebuilt table, for the text
\* in the search box and the two selected pills.  The overdue ids it
\* refreshes only colour the rows.
filter_catalog_table(typed, filter_status, filter_course) ==
    LET search_query == lower(strip(typed))
    IN  SelectSeq(mock_items,
            LAMBDA item : /\ status_passes(item, filter_status)
                          /\ course_passes(item, filter_course)
                          /\ search_matches(item, search_query))

\* search(query, {status, course}): the pills are set and the box is typed in
search(typed, filter_status, filter_course) ==
    /\ ret' = Some(filter_catalog_table(typed, filter_status, filter_course))
    /\ lastCall' = [op |-> "_filter_catalog_table", typed |-> typed,
                    status |-> filter_status, course |-> filter_course]
    /\ UNCHANGED deleted_student_ids
    /\ UNCHANGED <<store, clock, ui>>

SearchInputs ==
    { [typed |-> <<>>,                status |-> "All",       course |-> "All"],
      [typed |-> <<>>,                status |-> "Issued",    course |-> "ECE101"],
      [typed |-> <<"a","r","d">>,     status |-> "Available", course |-> "All"],
      [typed |-> <<" ","P","i"," ">>, status |-> "All",       course |-> "All"],
      [typed |-> <<" ","P","i"," ">>, status |-> "All",       course |-> "CS201"],
      [typed |-> <<"U","i","n">>,     status |-> "All",       course |-> "ECE101"],
      [typed |-> <<"z","z">>,         status |-> "All",       course |-> "All"] }
CatalogCsvInputs == { <<Row(Pi, IntCell(1))>> }
CatalogIssueInputs == { [student_id |-> 2, item_ids |-> <<1>>, issuer_id |-> Some(1)] }
CatalogDamagedInputs == { <<3, 1>>, <<6, 3>> }

\* the store operations interleaved with the read-only views
NextQueries ==
    \/ Tick
    \/ \E c \in QueryIssueInputs : issue(c.student_id, c.item_ids, c.issuer_id)
    \/ \E r \in QueryReturnInputs : returnItem(r[1], r[2])
    \/ \E d \in DaysThresholdInputs : overdueItems(d)
    \/ \E n \in LimitInputs : recentActivity(n)

SpecQueries == Init /\ [][NextQueries]_vars

\* the catalog page searched while items are imported, issued and damaged
NextCatalog ==
    \/ \E c \in CatalogCsvInputs : bulkImport(c)
    \/ \E c \in CatalogIssueInputs : issue(c.student_id, c.item_ids, c.issuer_id)
    \/ \E r \in CatalogDamagedInputs : reportDamaged(r[1], r[2])
    \/ \E q \in SearchInputs : search(q.typed, q.status, q.course)

SpecCatalog == Init /\ [][NextCatalog]_vars

\* ------------------------------------------------------------------ LabApp
\* Every popup is modal (grab_set): while one is open only its own buttons
\* act.  popups is the stack of open popups, the last one on top.

ErrorPopup(title, message) == [kind |-> "error", title |-> title, message |-> message]
SuccessPopup(message) == [kind |-> "success", message |-> message]

TopPopup == popups[Len(popups)]
PopOne == SubSeq(popups, 1, Len(popups) - 1)

\* f"{student['name']} ({student['student_id']})"
StudentLabel(student) == <<student.name, student.student_id>>
\* f"{s['name']} ({s['staff_id']})"
StaffLabel(s) == <<s.name, s.staff_id>>

\* the dict LabApp keeps of an item while it is in the cart or in a popup
ItemRef(item) ==
    [id |-> item.id, serial_number |-> item.serial_number,
     inventory_id |-> item.inventory_id]

\* DatabaseManager.get_item_by_serial (use_mock branch): None or Some(item)
get_item_by_serial(serial_number) ==
    IF \E k \in DOMAIN mock_items :
           upper(mock_items[k].serial_number) = upper(serial_number)
    THEN Some(mock_items[CHOOSE k \in DOMAIN mock_items :
                 /\ upper(mock_items[k].serial_number) = upper(serial_number)
                 /\ \A j \in 1..(k - 1) :
                        upper(mock_items[j].serial_number) # upper(serial_number)])
    ELSE None

\* DatabaseManager.get_available_items_by_name (use_mock branch)
get_available_items_by_name(component_name) ==
    LET matches == {k \in DOMAIN mock_inventory :
                       upper(mock_inventory[k].name) = upper(component_name)}
        inventory_id ==
            IF matches = {} THEN None
            ELSE Some(mock_inventory[CHOOSE k \in matches :
                                        \A j \in matches : k <= j].id)
    IN  IF inventory_id = None \/ inventory_id = Some(0) THEN <<>>
        ELSE SelectSeq(mock_items,
                 LAMBDA item : item.inventory_id = inventory_id[1]
                               /\ item.status = "Available")

\* .ilike('name', f'%{component_name}%') for a component_name without the
\* wildcards % and _: the name contains it, letter case ignored
ilike_contains(name, component_name) == contains(lower(component_name), lower(name))

\* DatabaseManager.get_available_items_by_name (remote branch), against
\* remote tables holding the records of the in-process store, in that order
remote_get_available_items_by_name(component_name) ==
    LET inventory_ids ==
            {mock_inventory[k].id : k \in {j \in DOMAIN mock_inventory :
                ilike_contains(mock_inventory[j].name, component_name)}}
    IN  IF inventory_ids = {} THEN <<>>
        ELSE SelectSeq(mock_items,
                 LAMBDA item : item.inventory_id \in inventory_ids
                               /\ item.status = "Available")

\* LabApp._switch_view: the part of the rebuilt page that is state.  Every
\* widget of the old page is destroyed, the loan rows with it;
\* _show_returns_view also forgets the selected student.
switch_view_state(view_name) ==
    /\ current_view' = view_name
    /\ loans' = <<>>
    /\ selected_return_student' =
           IF view_name = "returns" THEN None ELSE selected_return_student

\* LabApp._switch_view (sidebar button)
switch_view(view_name) ==
    /\ popups = <<>>
    /\ switch_view_state(view_name)
    /\ lastCall' = [op |-> "_switch_view"]
    /\ UNCHANGED deleted_student_ids
    /\ UNCHANGED <<store, clock, ret, cart_items, cart_confirmed,
                   current_issuer_id, popups>>

\* LabApp._on_issuer_changed
on_issuer_changed(value) ==
    /\ popups = <<>>
    /\ value # <<>>
    /\ current_issuer_id' =
           IF \E k \in DOMAIN mock_staff : StaffLabel(mock_staff[k]) = value
           THEN Some(mock_staff[CHOOSE k \in DOMAIN mock_staff :
                        /\ StaffLabel(mock_staff[k]) = value
                        /\ \A j \in 1..(k - 1) : StaffLabel(mock_staff[j]) # value].id)
           ELSE current_issuer_id
    /\ lastCall' = [op |-> "_on_issuer_changed"]
    /\ UNCHANGED deleted_student_ids
    /\ UNCHANGED <<store, clock, ret, cart_items, cart_confirmed, current_view,
                   popups, selected_return_student, loans>>

\* LabApp._sync_data without Supabase credentials: a new DatabaseManager
\* (the seeded store again), _load_global_staff, the current page rebuilt,
\* then the "Sync Warning" popup.  cart_items is not touched.
sync_data ==
    /\ popups = <<>>
    /\ init_mock_data(clock)
    /\ current_issuer_id' = Some(SeedStaff[1].id)
    /\ switch_view_state(current_view)
    /\ popups' = <<ErrorPopup("Sync Warning", "Not connected to Supabase. Using mock data.")>>
    /\ lastCall' = [op |-> "_sync_data"]
    /\ deleted_student_ids' = {}
    /\ UNCHANGED <<clock, ret, cart_items, cart_confirmed>>

\* LabApp._add_item_to_cart, called with the popups left open by its caller;
\* confirmed records that the item came through _confirm_damaged_issue
add_item_to_cart(item, confirmed, open_popups) ==
    IF \E k \in DOMAIN cart_items : cart_items[k].id = item.id
    THEN /\ popups' = Append(open_popups, ErrorPopup("Duplicate", "Item already in cart!"))
         /\ UNCHANGED <<cart_items, cart_confirmed>>
    ELSE /\ Len(cart_items) < MaxCart
         /\ cart_items' = Append(cart_items, ItemRef(item))
         /\ cart_confirmed' = IF confirmed THEN cart_confirmed \cup {item.id}
                              ELSE cart_confirmed
         /\ popups' = open_popups

\* LabApp._handle_serial_number
handle_serial_number(item) ==
    LET status == status_lower(item.status)
    IN  CASE status = "issued" ->
               /\ popups' = <<ErrorPopup("Error", "Item already issued!")>>
               /\ UNCHANGED <<cart_items, cart_confirmed>>
          [] status = "damaged" ->
               /\ popups' = <<[kind |-> "warning", item |-> ItemRef(item)]>>
               /\ UNCHANGED <<cart_items, cart_confirmed>>
          [] status = "available" ->
               add_item_to_cart(item, FALSE, <<>>)
          [] OTHER ->
               /\ popups' = <<ErrorPopup("Error", "Cannot issue.")>>
               /\ UNCHANGED <<cart_items, cart_confirmed>>

\* LabApp._handle_component_name
handle_component_name(component_name) ==
    LET available_items == get_available_items_by_name(component_name)
    IN  /\ popups' =
               IF available_items = <<>>
               THEN <<ErrorPopup("Not Found", "No available items found.")>>
               ELSE <<[kind |-> "component",
                       items |-> [k \in DOMAIN available_items |->
                                     ItemRef(available_items[k])]]>>
        /\ UNCHANGED <<cart_items, cart_confirmed>>

\* LabApp._add_to_cart ("Add to Cart" button or <Return> in the entry)
add_to_cart(typed) ==
    /\ popups = <<>>
    /\ current_view = "issue"
    /\ LET input_text == strip(typed)
       IN  IF input_text = <<>>
           THEN /\ popups' = <<ErrorPopup("Error",
                                  "Please enter a serial number or component name.")>>
                /\ UNCHANGED <<cart_items, cart_confirmed>>
           ELSE LET item == get_item_by_serial(input_text)
                IN  IF item # None
                    THEN handle_serial_number(item[1])
                    ELSE handle_component_name(input_text)
    /\ lastCall' = [op |-> "_add_to_cart"]
    /\ UNCHANGED deleted_student_ids
    /\ UNCHANGED <<store, clock, ret, current_view, current_issuer_id,
                   selected_return_student, loans>>

\* LabApp._confirm_damaged_issue ("Confirm Issue" on the warning popup)
confirm_damaged_issue ==
    /\ popups # <<>>
    /\ TopPopup.kind = "warning"
    /\ add_item_to_cart(TopPopup.item, TRUE, PopOne)
    /\ lastCall' = [op |-> "_confirm_damaged_issue"]
    /\ UNCHANGED deleted_student_ids
    /\ UNCHANGED <<store, clock, ret, current_view, current_issuer_id,
                   selected_return_student, loans>>

\* ComponentSelectionPopup._select_item: callback(item), then destroy()
select_item(item) ==
    /\ popups # <<>>
    /\ TopPopup.kind = "component"
    /\ \E k \in DOMAIN TopPopup.items : TopPopup.items[k] = item
    /\ add_item_to_cart(item, FALSE, PopOne)
    /\ lastCall' = [op |-> "_select_item"]
    /\ UNCHANGED deleted_student_ids
    /\ UNCHANGED <<store, clock, ret, current_view, current_issuer_id,
                   selected_return_student, loans>>

\* popup.destroy: Cancel / OK buttons bound to destroy, ComponentSelectionPopup._cancel,
\* and the window manager's close button of any popup
destroy_popup ==
    /\ popups # <<>>
    /\ popups' = PopOne
    /\ lastCall' = [op |-> "destroy"]
    /\ UNCHANGED deleted_student_ids
    /\ UNCHANGED <<store, clock, ret, cart_items, cart_confirmed, current_view,
                   current_issuer_id, selected_return_student, loans>>

\* LabApp._remove_from_cart
remove_from_cart(item) ==
    /\ popups = <<>>
    /\ current_view = "issue"
    /\ \E k \in DOMAIN cart_items : cart_items[k] = item
    /\ cart_items' = SelectSeq(cart_items, LAMBDA i : i.id # item.id)
    /\ cart_confirmed' = cart_confirmed \ {item.id}
    /\ lastCall' = [op |-> "_remove_from_cart"]
    /\ UNCHANGED deleted_student_ids
    /\ UNCHANGED <<store, clock, ret, current_view, current_issuer_id, popups,
                   selected_return_student, loans>>

\* _finalize_issue without its empty-cart test
cart_is_empty_unchecked == FALSE

\* LabApp._finalize_issue: "if not self.cart_items"
cart_is_empty == cart_items = <<>>

\* LabApp._finalize_issue ("Finalize Issue" button); student_value is the
\* text of the student combo box
finalize_issue(student_value) ==
    /\ popups = <<>>
    /\ current_view = "issue"
    /\ LET matching == {k \in DOMAIN mock_students :
                           StudentLabel(mock_students[k]) = student_value}
           item_ids == [k \in DOMAIN cart_items |-> cart_items[k].id]
       IN  CASE cart_is_empty ->
                  /\ popups' = <<ErrorPopup("Empty Cart",
                                    "Cart is empty. Add items before finalizing.")>>
                  /\ UNCHANGED <<store, ret>>
             [] ~cart_is_empty /\ current_issuer_id = None ->
                  /\ popups' = <<ErrorPopup("No Issuer Selected",
                                    "Please select an issuer.")>>
                  /\ UNCHANGED <<store, ret>>
             [] ~cart_is_empty /\ current_issuer_id # None /\ student_value = <<>> ->
                  /\ popups' = <<ErrorPopup("No Student Selected",
                                    "Please select a student.")>>
                  /\ UNCHANGED <<store, ret>>
             [] ~cart_is_empty /\ current_issuer_id # None /\ student_value # <<>>
                /\ matching = {} ->
                  /\ popups' = <<ErrorPopup("Error", "Invalid student selection.")>>
                  /\ UNCHANGED <<store, ret>>
             [] OTHER ->
                  LET selected_student ==
                          mock_students[CHOOSE k \in matching : \A j \in matching : k <= j]
                  IN  /\ Len(mock_transactions) < MaxTransactions
                      /\ create_transaction(selected_student.id, item_ids,
                                            current_issuer_id)
                      /\ popups' = <<[kind |-> "issue_success",
                                      transaction_id |-> Len(mock_transactions) + 1]>>
    /\ lastCall' = [op |-> "_finalize_issue", student_value |-> student_value]
    /\ UNCHANGED deleted_student_ids
    /\ UNCHANGED <<clock, cart_items, cart_confirmed, current_view, current_issuer_id,
                   selected_return_student, loans>>

\* LabApp._close_success_popup ("OK" on the popup of a finalized issue)
close_success_popup ==
    /\ popups # <<>>
    /\ TopPopup.kind = "issue_success"
    /\ popups' = PopOne
    /\ cart_items' = <<>>
    /\ cart_confirmed' = {}
    /\ lastCall' = [op |-> "_close_success_popup"]
    /\ UNCHANGED deleted_student_ids
    /\ UNCHANGED <<store, clock, ret, current_view, current_issuer_id,
                   selected_return_student, loans>>

\* select_student of LabApp._create_student_result_item: a click on one of the
\* students _search_students_for_returns lists (every student is listed for a
\* query equal to their own student_id)
select_student(student) ==
    /\ popups = <<>>
    /\ current_view = "returns"
    /\ \E k \in DOMAIN mock_students : mock_students[k] = student
    /\ selected_return_student' = Some(student)
    /\ loans' = get_active_loans(student.id)
    /\ lastCall' = [op |-> "select_student"]
    /\ UNCHANGED deleted_student_ids
    /\ UNCHANGED <<store, clock, ret, cart_items, cart_confirmed, current_view,
                   current_issuer_id, popups>>

\* LabApp._load_active_loans after a return or damage report, on the new store
reload_active_loans ==
    loans' = IF selected_return_student # None
             THEN loans_of_transactions(selected_return_student[1].id,
                      mock_transactions', mock_transaction_items', mock_items')
             ELSE loans

\* LabApp._handle_return_item ("Return" button of a loan row)
handle_return_item(loan) ==
    /\ popups = <<>>
    /\ current_view = "returns"
    /\ \E k \in DOMAIN loans : loans[k] = loan
    /\ return_item(loan.id, loan.transaction_id)
    /\ reload_active_loans
    /\ popups' = <<SuccessPopup("returned successfully!")>>
    /\ lastCall' = [op |-> "_handle_return_item"]
    /\ UNCHANGED deleted_student_ids
    /\ UNCHANGED <<clock, cart_items, cart_confirmed, current_view,
                   current_issuer_id, selected_return_student>>

\* LabApp._handle_report_damaged ("Report Damaged" button of a loan row)
handle_report_damaged(loan) ==
    /\ popups = <<>>
    /\ current_view = "returns"
    /\ \E k \in DOMAIN loans : loans[k] = loan
    /\ popups' = <<[kind |-> "confirm_damage", loan |-> loan]>>
    /\ lastCall' = [op |-> "_handle_report_damaged"]
    /\ UNCHANGED deleted_student_ids
    /\ UNCHANGED <<store, clock, ret, cart_items, cart_confirmed, current_view,
                   current_issuer_id, selected_return_student, loans>>

\* LabApp._confirm_damage_report ("Confirm" on the damage popup)
confirm_damage_report ==
    /\ popups # <<>>
    /\ TopPopup.kind = "confirm_damage"
    /\ report_damaged(TopPopup.loan.id, TopPopup.loan.transaction_id)
    /\ reload_active_loans
    /\ popups' = Append(PopOne, SuccessPopup("reported as damaged."))
    /\ lastCall' = [op |-> "_confirm_damage_report"]
    /\ UNCHANGED deleted_student_ids
    /\ UNCHANGED <<clock, cart_items, cart_confirmed, current_view,
                   current_issuer_id, selected_return_student>>

\* inputs of the handlers
ViewInputs == {"issue", "returns"}
TypedInputs ==
    { SEN001,
      <<"a","r","d","0","0","3">>,
      <<" ","s","e","n","s","o","r"," ">>,
      <<"X","Y","Z">>,
      <<" ">> }
StudentValueInputs ==
    {StudentLabel(SeedStudents[1]), <<"Nobody", "STU999">>, <<>>}
ReturnStudentInputs == {1}

NextApp ==
    \/ \E v \in ViewInputs : switch_view(v)
    \/ sync_data
    \/ \E typed \in TypedInputs : add_to_cart(typed)
    \/ confirm_damaged_issue
    \/ \E item \in {ItemRef(mock_items[k]) : k \in DOMAIN mock_items} : select_item(item)
    \/ destroy_popup
    \/ \E item \in Range(cart_items) : remove_from_cart(item)
    \/ \E student_value \in StudentValueInputs : finalize_issue(student_value)
    \/ close_success_popup
    \/ \E student \in {st \in Range(mock_students) : st.id \in ReturnStudentInputs} :
           select_student(student)
    \/ \E loan \in Range(loans) : handle_return_item(loan)
    \/ \E loan \in Range(loans) : handle_report_damaged(loan)
    \/ confirm_damage_report

SpecApp == Init /\ [][NextApp]_vars

\* ------------------------------------------------ LabApp, Students page
\* LabApp._show_add_student_form ("+ Add Student")
show_add_student_form ==
    /\ popups = <<>>
    /\ current_view = "students"
    /\ popups' = <<[kind |-> "add_student_form"]>>
    /\ lastCall' = [op |-> "_show_add_student_form"]
    /\ UNCHANGED deleted_student_ids
    /\ UNCHANGED <<store, clock, ret, cart_items, cart_confirmed, current_view,
                   current_issuer_id, selected_return_student, loans>>

\* _submit_add_student without its "Check for duplicate student ID" loop
student_id_exists_unchecked(student_id) == FALSE

\* LabApp._submit_add_student: the "Check for duplicate student ID" loop
student_id_exists(student_id) ==
    \E k \in DOMAIN mock_students : mock_students[k].student_id = student_id

\* LabApp._submit_add_student, with the stripped texts of the form's entries
submit_add_student(student_id, name) ==
    /\ popups # <<>>
    /\ TopPopup.kind = "add_student_form"
    /\ IF student_id = "" \/ name = "" \/ student_id_exists(student_id)
       THEN /\ popups' = Append(popups,
                             ErrorPopup("Validation Error", "Please fix the following errors:"))
            /\ UNCHANGED <<store, ret>>
       ELSE /\ MaxId(mock_students) < MaxStudentId
            /\ create_student([student_id |-> student_id, name |-> name])
            /\ popups' = Append(popups, [kind |-> "add_student_success"])
    /\ lastCall' = [op |-> "_submit_add_student", student_id |-> student_id,
                    name |-> name]
    /\ UNCHANGED deleted_student_ids
    /\ UNCHANGED <<clock, cart_items, cart_confirmed, current_view,
                   current_issuer_id, selected_return_student, loans>>

\* LabApp._close_add_student_success ("OK"): both popups go, the page is rebuilt
close_add_student_success ==
    /\ Len(popups) >= 2
    /\ TopPopup.kind = "add_student_success"
    /\ popups' = SubSeq(popups, 1, Len(popups) - 2)
    /\ switch_view_state("students")
    /\ lastCall' = [op |-> "_close_add_student_success"]
    /\ UNCHANGED deleted_student_ids
    /\ UNCHANGED <<store, clock, ret, cart_items, cart_confirmed, current_issuer_id>>

\* LabApp._remove_student ("Remove" on a row of the students table)
remove_student(student) ==
    /\ popups = <<>>
    /\ current_view = "students"
    /\ popups' = <<[kind |-> "confirm_removal", student |-> student]>>
    /\ lastCall' = [op |-> "_remove_student"]
    /\ UNCHANGED deleted_student_ids
    /\ UNCHANGED <<store, clock, ret, cart_items, cart_confirmed, current_view,
                   current_issuer_id, selected_return_student, loans>>

\* LabApp._confirm_remove_student ("Confirm")
confirm_remove_student ==
    /\ popups # <<>>
    /\ TopPopup.kind = "confirm_removal"
    /\ delete_student(TopPopup.student.id)
    /\ deleted_student_ids' =
           deleted_student_ids \cup
               {mock_students[k].id : k \in {j \in DOMAIN mock_students :
                                                mock_students[j].id = TopPopup.student.id}}
    /\ switch_view_state("students")
    /\ popups' = Append(PopOne, SuccessPopup("removed successfully."))
    /\ lastCall' = [op |-> "_confirm_remove_student"]
    /\ UNCHANGED <<clock, cart_items, cart_confirmed, current_issuer_id>>

StudentCodeInputs == {"STU001", "STU009", ""}
StudentNameInputs == {"Ann Lee", ""}

NextStudents ==
    \/ switch_view("students")
    \/ sync_data
    \/ show_add_student_form
    \/ \E c \in StudentCodeInputs, n \in StudentNameInputs : submit_add_student(c, n)
    \/ close_add_student_success
    \/ destroy_popup
    \/ \E student \in Range(mock_students) : remove_student(student)
    \/ confirm_remove_student

SpecStudents == Init /\ [][NextStudents]_vars

\* ------------------------------------------------------------- properties
ItemIds == {mock_items[k].id : k \in DOMAIN mock_items}
TransactionIds == {mock_transactions[k].id : k \in DOMAIN mock_transactions}

\* status of the item with the given id, "(none)" when the store has no such item
ItemStatus(items, item_id) ==
    IF FirstIndexById(items, item_id) = 0 THEN "(none)"
    ELSE items[FirstIndexById(items, item_id)].status

\* the transaction with the given id (there is one)
TransactionById(transactions, transaction_id) ==
    transactions[FirstIndexById(transactions, transaction_id)]

\* the lines that refer to the item and belong to an Active transaction
ActiveLinesOf(item_id) ==
    {k \in DOMAIN mock_transaction_items :
        /\ mock_transaction_items[k].item_id = item_id
        /\ \E t \in DOMAIN mock_transactions :
               /\ mock_transactions[t].id = mock_transaction_items[k].transaction_id
               /\ mock_transactions[t].status = "Active"}

\* the transaction has a line for the item
HasLine(lines, transaction_id, item_id) ==
    \E k \in DOMAIN lines :
        lines[k].transaction_id = transaction_id /\ lines[k].item_id = item_id

\* C1: in every reachable state an item is Issued if and only if exactly one
\* line of an Active transaction refers to it.
C1_IssuedIffOneActiveLine ==
    \A k \in DOMAIN mock_items :
        (mock_items[k].status = "Issued")
            <=> (Cardinality(ActiveLinesOf(mock_items[k].id)) = 1)

\* C2: in every reachable state, the seeded one included, no line of an Active
\* transaction refers to an Available item.
C2_AvailableNotReferenced ==
    \A k \in DOMAIN mock_items :
        (mock_items[k].status = "Available") => (ActiveLinesOf(mock_items[k].id) = {})

\* the step is a _finalize_issue that reported success
IssueSucceeded ==
    /\ lastCall'.op = "_finalize_issue"
    /\ popups' # <<>>
    /\ popups'[Len(popups')].kind = "issue_success"

\* the student the combo box text selects (the first with that label)
SelectedStudent(student_value) ==
    LET matching == {k \in DOMAIN mock_students :
                        StudentLabel(mock_students[k]) = student_value}
    IN  mock_students[CHOOSE k \in matching : \A j \in matching : k <= j]

\* C3: a successful issue of the (non-empty) cart, every entry of which is an
\* item of the store, adds exactly one transaction, Active, of the selected
\* student and with a new id; adds exactly one line per cart item, all of the
\* new transaction; leaves every issued item Issued; and returns the new id.
C3_IssueCreatesTransaction ==
    [][ (IssueSucceeded
         /\ \A c \in DOMAIN cart_items : cart_items[c].id \in ItemIds)
        => LET n == Len(mock_transactions)
               m == Len(mock_transaction_items)
               new == mock_transactions'[n + 1]
           IN  /\ cart_items # <<>>
               /\ Len(mock_transactions') = n + 1
               /\ \A k \in 1..n : mock_transactions'[k] = mock_transactions[k]
               /\ new.status = "Active"
               /\ new.student_id = SelectedStudent(lastCall'.student_value).id
               /\ new.id \notin TransactionIds
               /\ ret' = Some(new.id)
               /\ popups'[Len(popups')].transaction_id = new.id
               /\ Len(mock_transaction_items') = m + Len(cart_items)
               /\ \A k \in 1..m : mock_transaction_items'[k] = mock_transaction_items[k]
               /\ \A k \in (m + 1)..(m + Len(cart_items)) :
                      mock_transaction_items'[k].transaction_id = new.id
               /\ \A c \in DOMAIN cart_items :
                      Cardinality({k \in (m + 1)..(m + Len(cart_items)) :
                          mock_transaction_items'[k].item_id = cart_items[c].id}) = 1
               /\ \A c \in DOMAIN cart_items :
                      ItemStatus(mock_items', cart_items[c].id) = "Issued"
      ]_vars

\* C3 witness: two items were finalized in one issue and both are Issued
C3_Witness ==
    /\ lastCall.op = "_finalize_issue"
    /\ popups # <<>>
    /\ popups[Len(popups)].kind = "issue_success"
    /\ Len(cart_items) = 2
    /\ Len(mock_transactions) = 3
    /\ mock_transactions[3].status = "Active"
    /\ \A c \in DOMAIN cart_items :
           /\ ItemStatus(mock_items, cart_items[c].id) = "Issued"
           /\ HasLine(mock_transaction_items, 3, cart_items[c].id)

\* the store's transactions, lines and items are left as they were
WorkflowUnchanged ==
    /\ mock_transactions' = mock_transactions
    /\ mock_transaction_items' = mock_transaction_items
    /\ mock_items' = mock_items

\* the step ended with an error popup on top
ErrorShown == popups' # <<>> /\ popups'[Len(popups')].kind = "error"

\* C4: finalizing a cart that holds an item whose current status is Issued is
\* rejected with an error: no transaction, no line, no status change.
C4_IssuedItemRejected ==
    [][ (/\ lastCall'.op = "_finalize_issue"
         /\ \E c \in DOMAIN cart_items :
                ItemStatus(mock_items, cart_items[c].id) = "Issued")
        => (WorkflowUnchanged /\ ErrorShown)
      ]_vars

\* C5: finalizing a cart that holds a Damaged item which did not come through
\* the override confirmation is refused and changes nothing; when every
\* Damaged item of the cart was confirmed (no item is Issued, a student is
\* selected) the issue succeeds and the Damaged items become Issued.
C5_DamagedNeedsOverride ==
    [][ lastCall'.op = "_finalize_issue" =>
          LET damaged == {c \in DOMAIN cart_items :
                             ItemStatus(mock_items, cart_items[c].id) = "Damaged"}
          IN  /\ (\E c \in damaged : cart_items[c].id \notin cart_confirmed)
                     => (WorkflowUnchanged /\ ErrorShown)
              /\ (/\ damaged # {}
                  /\ \A c \in damaged : cart_items[c].id \in cart_confirmed
                  /\ \A c \in DOMAIN cart_items :
                         ItemStatus(mock_items, cart_items[c].id) # "Issued"
                  /\ \E k \in DOMAIN mock_students :
                         StudentLabel(mock_students[k]) = lastCall'.student_value)
                     => (/\ IssueSucceeded
                         /\ \A c \in damaged :
                                ItemStatus(mock_items', cart_items[c].id) = "Issued")
      ]_vars

\* every transaction has at least one line
NoEmptyTransaction(transactions, lines) ==
    \A t \in DOMAIN transactions :
        \E k \in DOMAIN lines : lines[k].transaction_id = transactions[t].id

OpenLoan(item_id, transaction_id, st) ==
    /\ item_id \in ItemIds
    /\ transaction_id \in TransactionIds
    /\ TransactionById(mock_transactions, transaction_id).status = st
    /\ HasLine(mock_transaction_items, transaction_id, item_id)

\* C7: returnItem on an item and the Active transaction that issued it leaves
\* the item Available and that transaction Closed with closed_at set to the
\* time of the return; nothing else of the transaction changes.
C7_IssueThenReturn ==
    [][ (/\ lastCall'.op = "return_item"
         /\ OpenLoan(lastCall'.item_id, lastCall'.transaction_id, "Active"))
        => LET i == lastCall'.item_id
               t == lastCall'.transaction_id
               old == TransactionById(mock_transactions, t)
               new == TransactionById(mock_transactions', t)
           IN  /\ ItemStatus(mock_items', i) = "Available"
               /\ new.status = "Closed"
               /\ new.closed_at = Some(clock)
               /\ new.closed_at # None
               /\ new = [old EXCEPT !.status = "Closed", !.closed_at = Some(clock)]
               /\ ret' = Some(TRUE)
      ]_vars

\* C7 witness: item 1 (seeded Available) was issued in transaction 3 and then
\* returned on that transaction
C7_Witness ==
    /\ lastCall.op = "return_item"
    /\ lastCall.item_id = 1
    /\ lastCall.transaction_id = 3
    /\ Len(mock_transactions) = 3
    /\ HasLine(mock_transaction_items, 3, 1)
    /\ ItemStatus(mock_items, 1) = "Available"
    /\ mock_transactions[3].status = "Closed"
    /\ mock_transactions[3].closed_at = Some(clock)

\* C8: reportDamaged on an Issued item and its Active transaction makes the
\* item Damaged and closes the transaction (Closed, closed_at set); the store
\* it leaves is the one returnItem would leave, except for that item's status.
C8_ReportDamagedLikeReturn ==
    [][ (/\ lastCall'.op = "report_damaged"
         /\ OpenLoan(lastCall'.item_id, lastCall'.transaction_id, "Active")
         /\ ItemStatus(mock_items, lastCall'.item_id) = "Issued")
        => LET i == lastCall'.item_id
               t == lastCall'.transaction_id
               new == TransactionById(mock_transactions', t)
               returned == set_item_status(mock_items, i, "Available")
           IN  /\ ItemStatus(mock_items', i) = "Damaged"
               /\ new.status = "Closed"
               /\ new.closed_at = Some(clock)
               /\ mock_transactions' = close_transaction(mock_transactions, t, clock)
               /\ DOMAIN mock_items' = DOMAIN returned
               /\ \A k \in DOMAIN returned :
                      IF returned[k].id = i
                      THEN mock_items'[k] = [returned[k] EXCEPT !.status = "Damaged"]
                      ELSE mock_items'[k] = returned[k]
               /\ UNCHANGED <<mock_inventory, mock_students, mock_staff,
                              mock_transaction_items>>
               /\ ret' = Some(TRUE)
      ]_vars

\* C8 witness: the seeded loan of item 3 (Issued, transaction 1) was reported
\* damaged
C8_Witness ==
    /\ lastCall.op = "report_damaged"
    /\ lastCall.item_id = 3
    /\ lastCall.transaction_id = 1
    /\ ItemStatus(mock_items, 3) = "Damaged"
    /\ mock_transactions[1].status = "Closed"
    /\ mock_transactions[1].closed_at = Some(clock)
    /\ mock_transactions[2].status = "Active"

\* C9: returnItem or reportDamaged on a transaction that is already Closed
\* fails and changes nothing: the items and the transactions (status and
\* closed_at included) stay as they were.
C9_ClosedTransactionRejected ==
    [][ (/\ lastCall'.op \in {"return_item", "report_damaged"}
         /\ lastCall'.transaction_id \in TransactionIds
         /\ TransactionById(mock_transactions, lastCall'.transaction_id).status = "Closed")
        => (/\ ret' = Some(FALSE)
            /\ mock_items' = mock_items
            /\ mock_transactions' = mock_transactions)
      ]_vars

\* C10: returnItem with a transaction id that is not in the store reports
\* failure and leaves the items unchanged.
C10_AbsentTransactionRejected ==
    [][ (/\ lastCall'.op = "return_item"
         /\ lastCall'.transaction_id \notin TransactionIds)
        => (ret' = Some(FALSE) /\ mock_items' = mock_items)
      ]_vars

\* the records a step appended to a list are numbered above every record that
\* was already there and above every id in retired, in increasing order
FreshIds(old, new, retired) ==
    \A k \in (Len(old) + 1)..Len(new) :
        /\ \A j \in 1..(k - 1) : new[j].id < new[k].id
        /\ \A d \in retired : d < new[k].id

\* C11: in each collection every id assigned by an insert is greater than
\* every id assigned before it and is never the id of a record that exists or
\* was deleted earlier.
C11_IdsNeverReused ==
    [][ /\ FreshIds(mock_inventory, mock_inventory', {})
        /\ FreshIds(mock_items, mock_items', {})
        /\ FreshIds(mock_students, mock_students', deleted_student_ids)
        /\ FreshIds(mock_transactions, mock_transactions', {})
        /\ FreshIds(mock_transaction_items, mock_transaction_items', {})
      ]_vars

\* the rows of an import that get past the tests of lines 890-895: every row
\* before the first one whose quantity is not a number, except the skipped
RECURSIVE ProcessedRows(_)
ProcessedRows(csv_data) ==
    IF csv_data = <<>> \/ quantity_raises(Head(csv_data).Quantity) THEN <<>>
    ELSE IF strip(Head(csv_data).Component_Name) = <<>>
            \/ quantity_of(Head(csv_data).Quantity) <= 0
    THEN ProcessedRows(Tail(csv_data))
    ELSE <<Head(csv_data)>> \o ProcessedRows(Tail(csv_data))

\* the numeric suffixes of the items of the inventory whose serial starts with
\* the prefix
SuffixNumbers(items, inventory_id, prefix) ==
    {int_value(SubSeq(items[k].serial_number, Len(prefix) + 1,
                      Len(items[k].serial_number))) :
        k \in {j \in DOMAIN items :
                  /\ items[j].inventory_id = inventory_id
                  /\ startswith(items[j].serial_number, prefix)
                  /\ int_parses(SubSeq(items[j].serial_number, Len(prefix) + 1,
                                       Len(items[j].serial_number)))}}

SetMax(S) == CHOOSE m \in S : \A n \in S : n <= m

\* C12: an import of one row (component name C, quantity N) appends exactly N
\* items whose serials are prefix(C) followed by max+1 .. max+N, zero-padded
\* to 3 digits, max being the largest numeric suffix among the items that
\* were in the same inventory with that prefix, 0 if there was none.
C12_SequentialSerials ==
    [][ (/\ lastCall'.op = "bulk_import_inventory"
         /\ Len(ProcessedRows(lastCall'.csv_data)) = 1)
        => LET row == ProcessedRows(lastCall'.csv_data)[1]
               N == quantity_of(row.Quantity)
               prefix == serial_prefix(strip(row.Component_Name))
               n0 == Len(mock_items)
               inventory_id == mock_items'[n0 + 1].inventory_id
               max == SetMax(SuffixNumbers(mock_items, inventory_id, prefix) \cup {0})
           IN  /\ Len(mock_items') = n0 + N
               /\ \A k \in 1..n0 : mock_items'[k] = mock_items[k]
               /\ \A i \in 1..N :
                      /\ mock_items'[n0 + i].inventory_id = inventory_id
                      /\ mock_items'[n0 + i].serial_number
                             = prefix \o format_03d(max + i)
      ]_vars

\* C12 witness: two Arduino units were imported while ARD001..ARD004 existed,
\* and got ARD005 and ARD006
C12_Witness ==
    /\ lastCall.op = "bulk_import_inventory"
    /\ lastCall.csv_data = <<Row(Arduino, IntCell(2))>>
    /\ Len(mock_items) = 9
    /\ mock_items[8].serial_number = <<"A","R","D","0","0","5">>
    /\ mock_items[9].serial_number = <<"A","R","D","0","0","6">>
    /\ mock_items[8].inventory_id = 1

\* C13: no two items of the store have the same serial number.
C13_SerialsUnique ==
    \A j, k \in DOMAIN mock_items :
        mock_items[j].serial_number = mock_items[k].serial_number => j = k

\* the total quantity of the rows whose component is record k of inventory
RECURSIVE QuantityFor(_, _, _)
QuantityFor(rows, inventory, k) ==
    IF rows = <<>> THEN 0
    ELSE (IF existing_inv(inventory, strip(Head(rows).Component_Name)) = k
          THEN quantity_of(Head(rows).Quantity) ELSE 0)
         + QuantityFor(Tail(rows), inventory, k)

\* C14: an import in which no row fails, seen as a whole: every inventory
\* that existed gains exactly the quantities of the valid rows that name it
\* (ignoring case) and is otherwise unchanged; one inventory is created per
\* new name, with total_qty the quantities of its rows; every valid row adds
\* exactly quantity Available items of its inventory; and the returned
\* counts are the numbers of inventory and item records created.
C14_ImportReconciles ==
    [][ (/\ lastCall'.op = "bulk_import_inventory"
         /\ \A r \in DOMAIN lastCall'.csv_data :
                ~quantity_raises(lastCall'.csv_data[r].Quantity))
        => LET rows == ProcessedRows(lastCall'.csv_data)
               ni == Len(mock_inventory)
               nt == Len(mock_items)
               new_names == {upper(strip(rows[r].Component_Name)) :
                                r \in {q \in DOMAIN rows :
                                          existing_inv(mock_inventory,
                                              strip(rows[q].Component_Name)) = 0}}
               added(k) == QuantityFor(rows, mock_inventory', k)
           IN  /\ Len(mock_inventory') = ni + Cardinality(new_names)
               /\ \A k \in 1..ni :
                      mock_inventory'[k] =
                          [mock_inventory[k] EXCEPT !.total_qty = @ + added(k)]
               /\ \A k \in (ni + 1)..Len(mock_inventory') :
                      /\ upper(mock_inventory'[k].name) \in new_names
                      /\ mock_inventory'[k].total_qty = added(k)
                      /\ mock_inventory'[k].total_qty > 0
                      /\ \A j \in 1..(k - 1) :
                             mock_inventory'[j].id # mock_inventory'[k].id
               /\ \A r \in DOMAIN rows :
                      existing_inv(mock_inventory', strip(rows[r].Component_Name)) # 0
               /\ \A k \in 1..nt : mock_items'[k] = mock_items[k]
               /\ \A k \in (nt + 1)..Len(mock_items') :
                      mock_items'[k].status = "Available"
               /\ \A k \in DOMAIN mock_inventory' :
                      Cardinality({j \in (nt + 1)..Len(mock_items') :
                                      mock_items'[j].inventory_id = mock_inventory'[k].id})
                          = added(k)
               /\ ret' = Some(<<Len(mock_inventory') - ni, Len(mock_items') - nt>>)
      ]_vars

\* C14 witness: an import of "Pi" x1 then "PI" x1 created one inventory with
\* total_qty 2 and two items, and returned (1, 2)
C14_Witness ==
    /\ lastCall.op = "bulk_import_inventory"
    /\ lastCall.csv_data = <<Row(Pi, IntCell(1)), Row(<<"P","I">>, IntCell(1))>>
    /\ ret = Some(<<1, 2>>)
    /\ mock_inventory[Len(mock_inventory)].name = Pi
    /\ mock_inventory[Len(mock_inventory)].total_qty = 2
    /\ mock_items[Len(mock_items)].inventory_id = mock_inventory[Len(mock_inventory)].id
    /\ mock_items[Len(mock_items)].status = "Available"

\* the row has an empty component name or a quantity that is not positive
SkippableRow(row) ==
    /\ ~quantity_raises(row.Quantity)
    /\ strip(row.Component_Name) = <<>> \/ quantity_of(row.Quantity) <= 0

RECURSIVE TotalQuantity(_)
TotalQuantity(rows) ==
    IF rows = <<>> THEN 0
    ELSE quantity_of(Head(rows).Quantity) + TotalQuantity(Tail(rows))

\* C15: in an import without failing rows, the rows with an empty name or a
\* quantity <= 0 count for nothing: the import ends without error, the items
\* and inventories created and the counts returned are those of the other
\* rows alone, no inventory changes unless another row names it, and an
\* import of skipped rows only changes nothing and returns (0, 0).
C15_SkippedRows ==
    [][ (/\ lastCall'.op = "bulk_import_inventory"
         /\ \A r \in DOMAIN lastCall'.csv_data :
                ~quantity_raises(lastCall'.csv_data[r].Quantity)
         /\ \E r \in DOMAIN lastCall'.csv_data : SkippableRow(lastCall'.csv_data[r]))
        => LET csv_data == lastCall'.csv_data
               others == SelectSeq(csv_data, LAMBDA row : ~SkippableRow(row))
               named(inv) == \E r \in DOMAIN others :
                                 upper(strip(others[r].Component_Name)) = upper(inv.name)
               ni == Len(mock_inventory)
           IN  /\ Len(ret') = 1
               /\ ret' = Some(<<Len(mock_inventory') - ni,
                               Len(mock_items') - Len(mock_items)>>)
               /\ Len(mock_items') = Len(mock_items) + TotalQuantity(others)
               /\ \A k \in 1..Len(mock_items) : mock_items'[k] = mock_items[k]
               /\ Len(mock_inventory') >= ni
               /\ \A k \in 1..ni :
                      mock_inventory'[k] =
                          [mock_inventory[k] EXCEPT
                              !.total_qty = @ + QuantityFor(others, mock_inventory', k)]
               /\ \A k \in (ni + 1)..Len(mock_inventory') : named(mock_inventory'[k])
               /\ others = <<>> => (UNCHANGED store /\ ret' = Some(<<0, 0>>))
      ]_vars

\* C15 witness: an import of a blank name, Sensor x0, Sensor x-1 and Sensor x1
\* ended with (0, 1): only the last row counted
C15_Witness ==
    /\ lastCall.op = "bulk_import_inventory"
    /\ Len(lastCall.csv_data) = 4
    /\ SkippableRow(lastCall.csv_data[1])
    /\ SkippableRow(lastCall.csv_data[2])
    /\ SkippableRow(lastCall.csv_data[3])
    /\ ret = Some(<<0, 1>>)
    /\ mock_items[Len(mock_items)].inventory_id = 3
    /\ mock_inventory[3].total_qty = SeedInventory[3].total_qty + 1

\* C16: when a row of an import fails (its quantity is not a number), what
\* the rows before it wrote stays in the store and the import still returns
\* the counts of the records those rows created.
C16_PartialImportReturnsCounts ==
    [][ (/\ lastCall'.op = "bulk_import_inventory"
         /\ \E r \in DOMAIN lastCall'.csv_data :
                quantity_raises(lastCall'.csv_data[r].Quantity))
        => LET earlier == ProcessedRows(lastCall'.csv_data)
           IN  /\ Len(mock_items') = Len(mock_items) + TotalQuantity(earlier)
               /\ \A k \in DOMAIN mock_inventory :
                      mock_inventory'[k].total_qty =
                          mock_inventory[k].total_qty
                              + QuantityFor(earlier, mock_inventory', k)
               /\ Len(ret') = 1
               /\ ret' = Some(<<Len(mock_inventory') - Len(mock_inventory),
                               Len(mock_items') - Len(mock_items)>>)
      ]_vars

\* C17: no two inventory records have names that are equal ignoring case.
C17_InventoryNamesUnique ==
    \A j, k \in DOMAIN mock_inventory :
        upper(mock_inventory[j].name) = upper(mock_inventory[k].name) => j = k

\* no two student records have the same student_id code
StudentCodesUnique(students) ==
    \A j, k \in DOMAIN students :
        students[j].student_id = students[k].student_id => j = k

ActiveTransactionsOf(item_id) ==
    {t \in DOMAIN mock_transactions :
        /\ mock_transactions[t].status = "Active"
        /\ HasLine(mock_transaction_items, mock_transactions[t].id, item_id)}

\* C19: currentHolder(item) is None exactly when no Active transaction has a
\* line for the item, and otherwise is the name of the student of an Active
\* transaction that has one; lines of Closed transactions do not count.
C19_CurrentHolder ==
    \A i \in ItemIds :
        /\ (get_current_holder(i) = None) <=> (ActiveTransactionsOf(i) = {})
        /\ get_current_holder(i) # None =>
               \E t \in ActiveTransactionsOf(i), k \in DOMAIN mock_students :
                   /\ mock_students[k].id = mock_transactions[t].student_id
                   /\ get_current_holder(i) = Some(mock_students[k].name)

\* the lines of the Active transactions of the student
ActiveLinesOfStudent(student_id) ==
    {k \in DOMAIN mock_transaction_items :
        \E t \in DOMAIN mock_transactions :
            /\ mock_transactions[t].id = mock_transaction_items[k].transaction_id
            /\ mock_transactions[t].student_id = student_id
            /\ mock_transactions[t].status = "Active"}

\* the loan entry is the entry of the line: same line id, transaction id, item
LoanOfLine(loan, line) ==
    /\ loan.transaction_item_id = line.id
    /\ loan.transaction_id = line.transaction_id
    /\ loan.id = line.item_id

\* C20: activeLoans(student) has exactly one entry for every line of every
\* Active transaction of the student and no other entry; each entry carries
\* the ids of its transaction and of its line.
C20_ActiveLoans ==
    \A s \in {mock_transactions[t].student_id : t \in DOMAIN mock_transactions} :
        LET result == get_active_loans(s)
        IN  /\ \A k \in ActiveLinesOfStudent(s) :
                   Cardinality({n \in DOMAIN result :
                                   LoanOfLine(result[n], mock_transaction_items[k])}) = 1
            /\ \A n \in DOMAIN result :
                   \E k \in ActiveLinesOfStudent(s) :
                       LoanOfLine(result[n], mock_transaction_items[k])

\* C21: overdueItems(d) returns the items of exactly the Active transactions
\* whose issue_date is strictly earlier than now - d days (one issued exactly
\* d days ago is left out, one issued a second earlier is in), one row per
\* line, and each row's days_overdue is the number n of whole days with
\* n days <= now - issue_date < n + 1 days.
OverdueRows(days_threshold, now) ==
    { [id |-> mock_items[i].id,
       serial_number |-> mock_items[i].serial_number,
       status |-> mock_items[i].status,
       inventory_id |-> mock_items[i].inventory_id,
       transaction_id |-> mock_transactions[t].id,
       days_overdue |->
           CHOOSE n \in 0..(now - mock_transactions[t].issue_date) :
               /\ n * SecondsPerDay <= now - mock_transactions[t].issue_date
               /\ now - mock_transactions[t].issue_date < (n + 1) * SecondsPerDay] :
      <<t, l, i>> \in
          { x \in (DOMAIN mock_transactions) \X (DOMAIN mock_transaction_items)
                      \X (DOMAIN mock_items) :
              /\ mock_transactions[x[1]].status = "Active"
              /\ mock_transactions[x[1]].issue_date + days_threshold * SecondsPerDay < now
              /\ mock_transaction_items[x[2]].transaction_id = mock_transactions[x[1]].id
              /\ mock_items[x[3]].id = mock_transaction_items[x[2]].item_id } }

C21_OverdueItems ==
    [][ lastCall'.op = "get_overdue_items"
        => /\ Len(ret') = 1
           /\ Range(ret'[1]) = OverdueRows(lastCall'.days_threshold, clock)
           /\ Len(ret'[1]) = Cardinality(OverdueRows(lastCall'.days_threshold, clock)) ]_lastCall

\* C21 witness: a second after the seeded 10-day-old transaction turned 10
\* days old, overdueItems(10) returns its item with days_overdue 10, and not
\* the item of the transaction issued at start-up
C21_Witness ==
    /\ lastCall.op = "get_overdue_items"
    /\ lastCall.days_threshold = SeedOverdueDays
    /\ clock = 1
    /\ Len(ret) = 1
    /\ Len(ret[1]) = 1
    /\ ret[1][1].id = 5
    /\ ret[1][1].transaction_id = 2
    /\ ret[1][1].days_overdue = SeedOverdueDays

\* C22: recentActivity(limit) returns the first limit rows of the full
\* expansion: all transactions, newest issue date first and insertion order
\* among equal dates, one row per line, action Issue for an Active
\* transaction and Return otherwise.
SortedByIssueDateDesc ==
    LET before(j, k) ==
            \/ mock_transactions[j].issue_date > mock_transactions[k].issue_date
            \/ /\ mock_transactions[j].issue_date = mock_transactions[k].issue_date
               /\ j < k
        place(k) == 1 + Cardinality({j \in DOMAIN mock_transactions : before(j, k)})
    IN  [p \in DOMAIN mock_transactions |->
            mock_transactions[CHOOSE k \in DOMAIN mock_transactions : place(k) = p]]

FullActivity == activity_of_transactions(SortedByIssueDateDesc)

C22_RecentActivity ==
    [][ lastCall'.op = "get_recent_transactions"
        => /\ Len(ret') = 1
           /\ ret'[1] = Take(FullActivity, lastCall'.limit)
           /\ \A n \in DOMAIN ret'[1] :
                  ret'[1][n].action =
                      IF TransactionById(mock_transactions,
                                         ret'[1][n].transaction_id).status = "Active"
                      THEN "Issue" ELSE "Return" ]_lastCall

\* C23: search(query, {status, course}) returns exactly the items whose
\* serial number or component name contains the query (the text of the search
\* box without its surrounding blanks) at some position, letter case ignored,
\* and whose status and course are the selected ones when one is selected;
\* an empty query with no filter returns every item.
SameTextIgnoringCase(a, b) ==
    /\ Len(a) = Len(b)
    /\ \A n \in DOMAIN a : UpperChar(a[n]) = UpperChar(b[n])

ContainsIgnoringCase(text, query) ==
    \E from \in 1..(Len(text) + 1) :
        /\ from + Len(query) - 1 <= Len(text)
        /\ SameTextIgnoringCase(SubSeq(text, from, from + Len(query) - 1), query)

ComponentNames(item) ==
    {mock_inventory[k].name : k \in {j \in DOMAIN mock_inventory :
                                        mock_inventory[j].id = item.inventory_id}}

Courses(item) ==
    {mock_inventory[k].course : k \in {j \in DOMAIN mock_inventory :
                                         /\ mock_inventory[j].id = item.inventory_id
                                         /\ "course" \in DOMAIN mock_inventory[j]}}

SearchHits(query, status, course) ==
    {k \in DOMAIN mock_items :
        /\ \/ ContainsIgnoringCase(mock_items[k].serial_number, query)
           \/ \E name \in ComponentNames(mock_items[k]) : ContainsIgnoringCase(name, query)
        /\ status # "All" => mock_items[k].status = status
        /\ course # "All" => course \in Courses(mock_items[k])}

C23_Search ==
    [][ lastCall'.op = "_filter_catalog_table"
        => /\ Len(ret') = 1
           /\ LET hits == SearchHits(strip(lastCall'.typed), lastCall'.status,
                                     lastCall'.course)
              IN  /\ Len(ret'[1]) = Cardinality(hits)
                  /\ Range(ret'[1]) = {mock_items[k] : k \in hits}
           /\ (lastCall'.typed = <<>> /\ lastCall'.status = "All"
                  /\ lastCall'.course = "All") => ret'[1] = mock_items ]_lastCall

\* C23 witness: search("ard", {status: Available}) on the seeded store gives
\* ARD001 and ARD002, and neither the Issued ARD003 nor the Damaged ARD004
C23_Witness ==
    /\ lastCall.op = "_filter_catalog_table"
    /\ lastCall.typed = <<"a","r","d">>
    /\ lastCall.status = "Available"
    /\ lastCall.course = "All"
    /\ Len(ret) = 1
    /\ Len(ret[1]) = 2
    /\ ret[1][1].serial_number = ARD001
    /\ ret[1][2].serial_number = ARD002
    /\ \E k \in DOMAIN mock_items :
           mock_items[k].serial_number = ARD003 /\ mock_items[k].status = "Issued"

\* C24: on equal contents the in-process backend and the remote backend
\* return the same result; here for the lookup of the available items of a
\* component name, compared by the ids of the items returned.
ComponentNameInputs == { Sensor, <<"A","r","d">> }

ItemIdsOf(items) == [n \in DOMAIN items |-> items[n].id]

C24_BackendsAgree ==
    \A component_name \in ComponentNameInputs :
        ItemIdsOf(get_available_items_by_name(component_name))
            = ItemIdsOf(remote_get_available_items_by_name(component_name))

\* C25: every change of an item's status is Available -> Issued,
\* Issued -> Available, Issued -> Damaged or Damaged -> Issued; returnItem and
\* reportDamaged change the status of Issued items only.
AllowedStatusChanges ==
    { <<"Available", "Issued">>, <<"Issued", "Available">>,
      <<"Issued", "Damaged">>,   <<"Damaged", "Issued">> }

C25_StatusTransitions ==
    [][ \A k \in DOMAIN mock_items :
            (k \in DOMAIN mock_items' /\ mock_items'[k].status # mock_items[k].status)
            => /\ <<mock_items[k].status, mock_items'[k].status>> \in AllowedStatusChanges
               /\ lastCall'.op \in {"return_item", "report_damaged"}
                      => mock_items[k].status = "Issued" ]_vars

\* C26: returning or damage-reporting one item of a transaction that was
\* issued with several items closes the whole transaction in that step and
\* leaves the status of the transaction's other items as it was.
LineItemsOf(transaction_id) ==
    {mock_transaction_items[k].item_id :
        k \in {j \in DOMAIN mock_transaction_items :
                  mock_transaction_items[j].transaction_id = transaction_id}}

C26_OneReturnClosesAll ==
    [][ ( /\ lastCall'.op \in {"return_item", "report_damaged"}
          /\ lastCall'.transaction_id \in TransactionIds
          /\ lastCall'.item_id \in LineItemsOf(lastCall'.transaction_id)
          /\ Cardinality(LineItemsOf(lastCall'.transaction_id)) > 1 )
        => /\ TransactionById(mock_transactions', lastCall'.transaction_id).status
                  = "Closed"
           /\ \A j \in LineItemsOf(lastCall'.transaction_id) \ {lastCall'.item_id} :
                  j \in ItemIds
                  => ItemStatus(mock_items', j) = ItemStatus(mock_items, j) ]_vars

\* C26 witness: items 1 and 4 were issued together as transaction 3 and item
\* 1 was returned: the transaction is Closed and item 4 is still Issued
C26_Witness ==
    /\ lastCall.op = "return_item"
    /\ lastCall.item_id = 1
    /\ lastCall.transaction_id = 3
    /\ LineItemsOf(3) = {1, 4}
    /\ TransactionById(mock_transactions, 3).status = "Closed"
    /\ ItemStatus(mock_items, 1) = "Available"
    /\ ItemStatus(mock_items, 4) = "Issued"

\* C27: bulkImport, createInventory, createStudent and deleteStudent leave
\* the status of every existing item and of every existing transaction as it
\* was; issue, returnItem and reportDamaged leave every inventory record,
\* total_qty included, as it was.
StatusesKept(old, new) ==
    /\ Len(new) >= Len(old)
    /\ \A k \in DOMAIN old : new[k].id = old[k].id /\ new[k].status = old[k].status

C27_StatusWriters ==
    [][ /\ lastCall'.op \in {"bulk_import_inventory", "create_inventory",
                             "create_student", "delete_student"}
           => /\ StatusesKept(mock_items, mock_items')
              /\ StatusesKept(mock_transactions, mock_transactions')
        /\ lastCall'.op \in {"create_transaction", "return_item", "report_damaged"}
           => mock_inventory' = mock_inventory ]_<<store, lastCall>>

\* C27 witness: an import has added an item next to Issued and Damaged items
\* and an Active transaction, after an issue that left total_qty as seeded
C27_Witness ==
    /\ lastCall.op = "bulk_import_inventory"
    /\ Len(mock_items) > Len(SeedItems)
    /\ Len(mock_transactions) > Len(SeedTransactions(0))
    /\ \E k \in DOMAIN mock_items : mock_items[k].status = "Issued"
    /\ \E k \in DOMAIN mock_items : mock_items[k].status = "Damaged"
    /\ \E k \in DOMAIN mock_transactions : mock_transactions[k].status = "Active"
    /\ \A k \in DOMAIN SeedInventory : mock_inventory[k] = SeedInventory[k]

\* C28: every item whose status is Issued appears in activeLoans of some
\* student, with the id of an Active transaction through which it can be
\* returned.
C28_IssuedItemsReturnable ==
    \A k \in DOMAIN mock_items :
        mock_items[k].status = "Issued"
        => \E s \in DOMAIN mock_students :
               \E n \in DOMAIN get_active_loans(mock_students[s].id) :
                   LET loan == get_active_loans(mock_students[s].id)[n]
                   IN  /\ loan.id = mock_items[k].id
                       /\ loan.transaction_id \in TransactionIds
                       /\ TransactionById(mock_transactions, loan.transaction_id).status
                              = "Active"

\* C29: every transaction line refers to an existing transaction and an
\* existing item, and the student_id of every Active transaction is the id
\* of a student record.
StudentIds == {mock_students[k].id : k \in DOMAIN mock_students}

C29_ReferentialIntegrity ==
    /\ \A k \in DOMAIN mock_transaction_items :
           /\ mock_transaction_items[k].transaction_id \in TransactionIds
           /\ mock_transaction_items[k].item_id \in ItemIds
    /\ \A k \in DOMAIN mock_transactions :
           mock_transactions[k].status = "Active"
           => mock_transactions[k].student_id \in StudentIds

\* C30: a Closed transaction is never Active again, no line is added to or
\* removed from a transaction that exists, and the issue_date of a
\* transaction never changes.
LinesOf(lines, transaction_id) ==
    SelectSeq(lines, LAMBDA line : line.transaction_id = transaction_id)

C30_ClosedIsTerminal ==
    [][ \A k \in DOMAIN mock_transactions :
            /\ k \in DOMAIN mock_transactions'
            /\ mock_transactions'[k].id = mock_transactions[k].id
            /\ mock_transactions[k].status = "Closed"
                   => mock_transactions'[k].status = "Closed"
            /\ mock_transactions'[k].issue_date = mock_transactions[k].issue_date
            /\ LinesOf(mock_transaction_items', mock_transactions[k].id)
                   = LinesOf(mock_transaction_items, mock_transactions[k].id)
      ]_<<store, lastCall>>

\* C30 witness: a transaction with two lines was created a second after
\* start-up in a store where transaction 1 was already Closed; transaction 1
\* is still Closed, still has its one line and its issue_date
C30_Witness ==
    /\ lastCall.op = "create_transaction"
    /\ Len(mock_transactions) = 3
    /\ mock_transactions[1].status = "Closed"
    /\ mock_transactions[1].issue_date = 0
    /\ mock_transactions[3].issue_date = 1
    /\ Len(LinesOf(mock_transaction_items, 1)) = 1
    /\ Len(LinesOf(mock_transaction_items, 3)) = 2

====
